---- MODULE Spec2Model ----
(***************************************************************************)
(* Verification model of the pop-render service: the job orchestrator      *)
(* process_render, the pipeline configuration contract, the Upscaler and   *)
(* the process-wide state shared by concurrent renders.                    *)
(***************************************************************************)
EXTENDS Integers, Sequences, FiniteSets, TLC

(* ------------------------------ bounds -------------------------------- *)
\* number of render ids the job table may hold
MaxRenders == 1
\* number of process_render invocations (first runs and queue retries)
MaxRuns == 2

(* ---------------------------- vocabulary ------------------------------ *)
\* SQL NULL / Python None
Null == "null"
\* a NULL object-key column
NoKey == <<>>
\* render_data before the SELECT has run
NoData == [asset_key |-> NoKey, style_slug |-> Null]

RenderIds == 1..MaxRenders

\* style slug -> pipeline class
PIPELINE_MAP ==
  [s \in {"pop-poster", "pencil-sketch", "between-the-lines"} |->
     CASE s = "pop-poster" -> "PopPosterPipeline"
       [] s = "pencil-sketch" -> "PencilSketchPipeline"
       [] s = "between-the-lines" -> "BetweenLinesPipeline"]

\* mutant of PipelineGet: a slug that is not registered gets a pipeline too
PipelineGetLenient(slug) ==
  IF slug \in DOMAIN PIPELINE_MAP THEN PIPELINE_MAP[slug] ELSE "PopPosterPipeline"

\* PIPELINE_MAP.get(slug)
PipelineGet(slug) ==
  IF slug \in DOMAIN PIPELINE_MAP THEN PIPELINE_MAP[slug] ELSE Null

\* slugs a styles row may carry: one registered, one not registered
StyleSlugs == {"pop-poster", "pop-coastal"}

\* object keys of source assets: one that is in the bucket, one that is not
AssetPresent == <<"assets", "present">>
AssetMissing == <<"assets", "missing">>

\* f"renders/{render_id}/output.tiff"
OutputKey(render_id) == <<"renders", render_id, "output.tiff">>
\* f"renders/{render_id}/preview.jpg"
PreviewKey(render_id) == <<"renders", render_id, "preview.jpg">>

\* number of keys an override map may hold
MaxOverrides == 1

\* largest image width and height, in pixels
MaxDim == 4

\* number of threads that render (or upscale) concurrently in one process
MaxThreads == 2

\* a renders row as create_render inserts it, joined with its asset and style
QueuedRow(asset_key, style_slug) ==
  [status |-> "queued", asset_key |-> asset_key, style_slug |-> style_slug,
   error_message |-> Null, duration_ms |-> Null,
   output_minio_key |-> NoKey, preview_minio_key |-> NoKey]

VARIABLES
  renders,      \* aso_render.renders: render id -> row (ids without a row are absent)
  objects,      \* object keys present in the bucket
  tmpfiles,     \* temporary local files that exist: <<kind, run>>
  pc,           \* position of the worker inside process_render
  cur,          \* render_id of the current invocation
  runs,         \* number of invocations so far
  render_data,  \* the fetched row of the current invocation
  exc,          \* the exception in flight (its str()), or Null
  result,       \* how the current invocation ended: none | returned | raised
  started_ok,   \* the 'started' UPDATE of this invocation hit a row
  fail_write,   \* the 'failed' UPDATE of this invocation: none | ok | error
  log,          \* error-level log lines of this invocation
  effects,      \* what this invocation has attempted: tmpfile | download | upload
  swallowed     \* temp files whose unlink raised into `except: pass`

orchVars == <<renders, objects, tmpfiles, pc, cur, runs, render_data, exc,
              result, started_ok, fail_write, log, effects, swallowed>>

VARIABLES
  p_cls,        \* class of the pipeline object under construction / constructed
  p_config,     \* self.config: the dict object handed to the constructor
  p_state,      \* none | constructed | rejected | rendered | render_error
  p_error,      \* the exception raised by the constructor or by render
  p_resolved    \* the local `config` of the render call that has just returned

cfgVars == <<p_cls, p_config, p_state, p_error, p_resolved>>

VARIABLES
  available_scales, \* Upscaler.available_scales, as _check_models found them
  sr_cache,         \* Upscaler._sr_cache: the cache keys of the loaded models
  up_image,         \* the image handed to upscale: [obj, w, h]
  up_target,        \* target_size: <<width, height>>
  up_result,        \* the image upscale returned
  up_resamples,     \* Image.resize calls made by the last upscale
  up_loads,         \* the scales whose model the last upscale read from disk
  up_passes,        \* the scales the AI passes of the last upscale applied
  up_state          \* idle | returned

upVars == <<available_scales, sr_cache, up_image, up_target, up_result,
            up_resamples, up_loads, up_passes, up_state>>

VARIABLES
  np_random,    \* numpy's global RandomState: seeded?, values drawn since the seed
  t_pc,         \* per render thread: idle | seed | draw | done
  t_cls,        \* per render thread: the pipeline class it renders with
  t_out         \* per render thread: the noise blocks its texture stage drew

rngVars == <<np_random, t_pc, t_cls, t_out>>

VARIABLES
  g_upscaler,   \* the module global _upscaler: 0 (None) or the instance number
  g_created,    \* number of Upscaler objects constructed in the process
  g_caches,     \* instance number -> its _sr_cache (set of cache keys)
  g_loads,      \* scale -> number of times its model file was read
  u_pc,         \* per thread: position inside upscale_image
  u_inst,       \* per thread: the Upscaler it works on
  u_scale       \* per thread: the scale whose model it asks for

cacheVars == <<g_upscaler, g_created, g_caches, g_loads, u_pc, u_inst, u_scale>>

VARIABLES
  rn_cls,       \* class of the pipeline whose render is called
  rn_cfg,       \* the resolved configuration values render works with
  rn_image,     \* the input image: [mode, w, h]
  rn_calls      \* the render calls made on copies of rn_image: [inst, out]

renderVars == <<rn_cls, rn_cfg, rn_image, rn_calls>>

VARIABLES
  im_pc,        \* position inside the image section of process_render
  im_preset,    \* size_presets row: width_inches, height_inches (hundredths), dpi
  im_scales,    \* available_scales of the process's Upscaler
  im_source,    \* size of the downloaded source image
  im_target,    \* (target_width, target_height)
  im_image,     \* size of source_image / output_image as the section proceeds
  im_output,    \* size of the TIFF written
  im_preview,   \* size of the JPEG preview written
  im_cls,       \* the pipeline class the style resolved to
  im_algorithm_config, \* render_data['algorithm_config'] of the style
  im_error,     \* the error the pipeline's constructor raised, if any
  im_resolved   \* the configuration the pipeline rendered with

imageVars == <<im_pc, im_preset, im_scales, im_source, im_target, im_image,
               im_output, im_preview, im_cls, im_algorithm_config, im_error,
               im_resolved>>

VARIABLES
  monitors,     \* per kind: the monitor objects constructed, [running, stop_event, threads]
  m_global,     \* per kind: _queue_monitor / _storage_monitor / _memory_monitor (0 is None)
  gauge,        \* per kind: the sample of the monitor's gauge
  m_update,     \* the last update attempt of any monitor thread: [kind, outcome]
  m_last,       \* the last call made: start_monitoring | stop_monitoring | start | stop
  m_calls,      \* number of calls made so far
  m_run         \* number of times the last call was made in a row

monVars == <<monitors, m_global, gauge, m_update, m_last, m_calls, m_run>>

VARIABLES
  bl_pixels,    \* per pixel of the image: [theta, magnitude] from the Sobel stage
  bl_bins,      \* per pixel: the direction bins whose mask held it
  bl_axes,      \* per pixel: the blur axes averaged into its output value
  bl_state      \* idle | edges | blurred

blurVars == <<bl_pixels, bl_bins, bl_axes, bl_state>>

VARIABLES
  a_pc,         \* position of the request handler inside create_render
  a_id,         \* render_id of the request being handled (0: none yet)
  a_rows,       \* aso_render.renders: render id -> status
  a_uploads,    \* uploads/... objects in the bucket, by render id
  a_queue,      \* the 'renders' RQ queue: render ids of the jobs waiting
  a_resp        \* render id -> HTTP status of the answer

apiVars == <<a_pc, a_id, a_rows, a_uploads, a_queue, a_resp>>

VARIABLES
  pl_free,      \* connections that lie in the pool
  pl_pc,        \* thread -> position inside get_connection
  pl_conn,      \* thread -> connection it took (0: none)
  pl_body,      \* thread -> how the body of its last `with` ended
  pl_txn,       \* thread -> calls made on the connection when the body ended
  pl_raised     \* thread -> whether its last `with` let an exception out

poolVars == <<pl_free, pl_pc, pl_conn, pl_body, pl_txn, pl_raised>>

\* the parts of the service that are modelled on their own
svcVars == <<monVars, blurVars, apiVars, poolVars>>

vars == <<orchVars, cfgVars, upVars, rngVars, cacheVars, renderVars, imageVars,
          svcVars>>

\* the temporary file of the given kind created by the current invocation
Path(kind) == <<kind, runs>>

(* --------------------------- SQL statements --------------------------- *)
\* UPDATE renders SET status = 'started', started_at = now WHERE id = %s
UpdateStarted(tbl, id) ==
  IF id \in DOMAIN tbl THEN [tbl EXCEPT ![id].status = "started"] ELSE tbl

\* mutant of UpdateCompleted: the preview key is bound to both key columns
UpdateCompletedSwapped(tbl, id, output_key, preview_key) ==
  IF id \in DOMAIN tbl
    THEN [tbl EXCEPT ![id].status = "completed",
                     ![id].output_minio_key = preview_key,
                     ![id].preview_minio_key = preview_key,
                     ![id].duration_ms = "ms"]
    ELSE tbl

\* UPDATE renders SET status = 'completed', output_minio_key, preview_minio_key,
\*   completed_at, duration_ms WHERE id = %s
UpdateCompleted(tbl, id, output_key, preview_key) ==
  IF id \in DOMAIN tbl
    THEN [tbl EXCEPT ![id].status = "completed",
                     ![id].output_minio_key = output_key,
                     ![id].preview_minio_key = preview_key,
                     ![id].duration_ms = "ms"]
    ELSE tbl

\* mutant of UpdateFailed: the error message is not written
UpdateFailedNoMessage(tbl, id, msg) ==
  IF id \in DOMAIN tbl
    THEN [tbl EXCEPT ![id].status = "failed", ![id].duration_ms = "ms"]
    ELSE tbl

\* UPDATE renders SET status = 'failed', error_message, completed_at,
\*   duration_ms WHERE id = %s
UpdateFailed(tbl, id, msg) ==
  IF id \in DOMAIN tbl
    THEN [tbl EXCEPT ![id].status = "failed",
                     ![id].error_message = msg,
                     ![id].duration_ms = "ms"]
    ELSE tbl

(* ---------------------------- process_render -------------------------- *)
OrchInit ==
  /\ \E ids \in SUBSET RenderIds :
       renders \in [ids -> {QueuedRow(a, s) :
                              a \in {AssetPresent, AssetMissing}, s \in StyleSlugs}]
  /\ objects = {AssetPresent}
  /\ tmpfiles = {}
  /\ pc = "idle"
  /\ cur = 1
  /\ runs = 0
  /\ render_data = NoData
  /\ exc = Null
  /\ result = "none"
  /\ started_ok = FALSE
  /\ fail_write = "none"
  /\ log = {}
  /\ effects = {}
  /\ swallowed = {}

\* the queue hands a job to the worker: a first run or a retry of any render id
Start(r) ==
  /\ pc \in {"idle", "done"}
  /\ runs < MaxRuns
  /\ runs' = runs + 1
  /\ cur' = r
  /\ pc' = "mark_started"
  /\ render_data' = NoData
  /\ exc' = Null
  /\ result' = "none"
  /\ started_ok' = FALSE
  /\ fail_write' = "none"
  /\ log' = {}
  /\ effects' = {}
  /\ swallowed' = {}
  /\ UNCHANGED <<renders, objects, tmpfiles>>

\* an exception leaves the outer try body: control goes to `except Exception`
Raise(msg, next) ==
  /\ exc' = msg
  /\ pc' = next

MarkStarted ==
  /\ pc = "mark_started"
  /\ \/ /\ renders' = UpdateStarted(renders, cur)
        /\ started_ok' = (cur \in DOMAIN renders)
        /\ pc' = "fetch"
        /\ UNCHANGED exc
     \/ /\ Raise("database error", "handler")
        /\ UNCHANGED <<renders, started_ok>>
  /\ UNCHANGED <<objects, tmpfiles, cur, runs, render_data, result, fail_write, log, effects, swallowed>>

FetchDetails ==
  /\ pc = "fetch"
  /\ \/ /\ cur \in DOMAIN renders
        /\ render_data' = [asset_key |-> renders[cur].asset_key,
                           style_slug |-> renders[cur].style_slug]
        /\ pc' = "resolve"
        /\ UNCHANGED exc
     \/ /\ cur \notin DOMAIN renders
        /\ Raise("Render not found", "handler")
        /\ UNCHANGED render_data
     \/ /\ Raise("database error", "handler")
        /\ UNCHANGED render_data
  /\ UNCHANGED <<renders, objects, tmpfiles, cur, runs, result, started_ok,
                 fail_write, log, effects, swallowed>>

ResolvePipeline ==
  /\ pc = "resolve"
  /\ \/ /\ PipelineGet(render_data.style_slug) # Null
        /\ pc' = "download"
        /\ UNCHANGED exc
     \/ /\ PipelineGet(render_data.style_slug) = Null
        /\ Raise("Unknown style", "handler")
  /\ UNCHANGED <<renders, objects, tmpfiles, cur, runs, render_data, result,
                 started_ok, fail_write, log, effects, swallowed>>

\* NamedTemporaryFile(delete=False) then storage.download_file, both before the
\* inner try statement is entered
DownloadAsset ==
  /\ pc = "download"
  /\ tmpfiles' = tmpfiles \cup {Path("input")}
  /\ effects' = effects \cup {"tmpfile", "download"}
  /\ \/ /\ render_data.asset_key \in objects
        /\ pc' = "process"
        /\ UNCHANGED exc
     \/ /\ render_data.asset_key \notin objects
        /\ Raise("download failed: no such key", "handler")
     \/ /\ Raise("download failed", "handler")
  /\ UNCHANGED <<renders, objects, cur, runs, render_data, result, started_ok,
                 fail_write, log, swallowed>>

\* Image.open, upscale_image, pipeline_class(), render, resize to target
ProcessImage ==
  /\ pc = "process"
  /\ \/ /\ pc' = "save_tiff"
        /\ UNCHANGED exc
     \/ /\ Raise("image processing failed", "cleanup_input")
  /\ UNCHANGED <<renders, objects, tmpfiles, cur, runs, render_data, result,
                 started_ok, fail_write, log, effects, swallowed>>

SaveTiff ==
  /\ pc = "save_tiff"
  /\ tmpfiles' = tmpfiles \cup {Path("output")}
  /\ effects' = effects \cup {"tmpfile"}
  /\ \/ /\ pc' = "save_preview"
        /\ UNCHANGED exc
     \/ /\ Raise("TIFF encode failed", "cleanup_input")
  /\ UNCHANGED <<renders, objects, cur, runs, render_data, result, started_ok,
                 fail_write, log, swallowed>>

SavePreview ==
  /\ pc = "save_preview"
  /\ tmpfiles' = tmpfiles \cup {Path("preview")}
  /\ effects' = effects \cup {"tmpfile"}
  /\ \/ /\ pc' = "upload_output"
        /\ UNCHANGED exc
     \/ /\ Raise("JPEG encode failed", "cleanup_input")
  /\ UNCHANGED <<renders, objects, cur, runs, render_data, result, started_ok,
                 fail_write, log, swallowed>>

UploadOutput ==
  /\ pc = "upload_output"
  /\ effects' = effects \cup {"upload"}
  /\ \/ /\ objects' = objects \cup {OutputKey(cur)}
        /\ pc' = "upload_preview"
        /\ UNCHANGED exc
     \/ /\ Raise("upload failed", "cleanup_outputs")
        /\ UNCHANGED objects
  /\ UNCHANGED <<renders, tmpfiles, cur, runs, render_data, result, started_ok,
                 fail_write, log, swallowed>>

UploadPreview ==
  /\ pc = "upload_preview"
  /\ effects' = effects \cup {"upload"}
  /\ \/ /\ objects' = objects \cup {PreviewKey(cur)}
        /\ pc' = "write_completed"
        /\ UNCHANGED exc
     \/ /\ Raise("upload failed", "cleanup_outputs")
        /\ UNCHANGED objects
  /\ UNCHANGED <<renders, tmpfiles, cur, runs, render_data, result, started_ok,
                 fail_write, log, swallowed>>

\* the 'completed' UPDATE, track_render_job and the return statement
WriteCompleted ==
  /\ pc = "write_completed"
  /\ \/ /\ renders' = UpdateCompleted(renders, cur, OutputKey(cur), PreviewKey(cur))
        /\ pc' = "cleanup_outputs"
        /\ UNCHANGED exc
     \/ /\ Raise("database error", "cleanup_outputs")
        /\ UNCHANGED renders
  /\ UNCHANGED <<objects, tmpfiles, cur, runs, render_data, result, started_ok,
                 fail_write, log, effects, swallowed>>

\* inner finally: unlink output_path and preview_path; an unlink that raises
\* leaves its file behind and its exception ends in `except: pass`
CleanupOutputs ==
  /\ pc = "cleanup_outputs"
  /\ \E kept \in SUBSET {"output", "preview"} :
       /\ tmpfiles' = tmpfiles \ {Path(k) : k \in {"output", "preview"} \ kept}
       /\ swallowed' = swallowed \cup kept
  /\ pc' = "cleanup_input"
  /\ UNCHANGED <<renders, objects, cur, runs, render_data, exc, result,
                 started_ok, fail_write, log, effects>>

\* outer finally: unlink input_path (an unlink that raises ends in
\* `except: pass`); then the return, or on to the handler
CleanupInput ==
  /\ pc = "cleanup_input"
  /\ \/ /\ tmpfiles' = tmpfiles \ {Path("input")}
        /\ UNCHANGED swallowed
     \/ /\ swallowed' = swallowed \cup {"input"}
        /\ UNCHANGED tmpfiles
  /\ \/ /\ exc = Null
        /\ pc' = "done"
        /\ result' = "returned"
     \/ /\ exc # Null
        /\ pc' = "handler"
        /\ UNCHANGED result
  /\ UNCHANGED <<renders, objects, cur, runs, render_data, exc, started_ok,
                 fail_write, log, effects>>

\* except Exception: failure metric, error log, the 'failed' UPDATE (its own
\* exception is logged and dropped), raise
HandleFailure ==
  /\ pc = "handler"
  /\ \/ /\ renders' = UpdateFailed(renders, cur, exc)
        /\ fail_write' = "ok"
        /\ log' = log \cup {"Render failed"}
     \/ /\ fail_write' = "error"
        /\ log' = log \cup {"Render failed", "Failed to update render status"}
        /\ UNCHANGED renders
  /\ pc' = "done"
  /\ result' = "raised"
  /\ UNCHANGED <<objects, tmpfiles, cur, runs, render_data, exc, started_ok,
                 effects, swallowed>>

(* ====================== pipeline configuration ======================== *)
Pipelines ==
  {"PopPosterPipeline", "PencilSketchPipeline", "BetweenLinesPipeline",
   "PopScreenprintPipeline", "PopCoastalPipeline", "PopRebelPipeline",
   "PopCoastalPosterPipeline"}

\* the classes that inherit RenderPipeline._validate_config unchanged
ScreenprintFamily ==
  {"PopScreenprintPipeline", "PopCoastalPipeline", "PopRebelPipeline",
   "PopCoastalPosterPipeline"}

\* JSON values: t is the Python type, n the number (floats in thousandths),
\* s the string, ks the keys of a nested dict
IntV(n) == [t |-> "int", n |-> n, s |-> "", ks |-> {}]
FloatV(m) == [t |-> "float", n |-> m, s |-> "", ks |-> {}]
StrV(s) == [t |-> "str", n |-> 0, s |-> s, ks |-> {}]
MapV(ks) == [t |-> "map", n |-> 0, s |-> "", ks |-> ks]

NoError == [kind |-> "none", keys |-> {}]
ValueErrorOf(kind, keys) == [kind |-> kind, keys |-> keys]

\* keys of the nested sections of the screen-print default configurations
PosterizationKeys == {"k", "colorspace", "seed", "palette"}
PreSmoothKeys == {"type", "d", "sigmaColor", "sigmaSpace"}
EdgeKeys == {"method", "low", "high", "dilate", "close", "color"}
SharpenKeys == {"radius", "percent", "threshold"}
TextureKeys == {"paper_grain", "speckle", "ink_distress"}
PosterEdgeKeys == EdgeKeys \cup {"suppress_low_contrast", "contrast_threshold"}
PosterTextureKeys == {"directional_ink", "ink_intensity", "stretch_factor", "blur_sigma"}
HighlightKeys == {"enabled", "threshold"}

\* get_default_config() of each class
GetDefaultConfig(cls) ==
  CASE cls = "PopPosterPipeline" ->
         [k \in {"k", "seed", "canny_low", "canny_high", "sharpen_radius",
                 "sharpen_percent", "sharpen_threshold"} |->
            CASE k = "k" -> IntV(8)
              [] k = "seed" -> IntV(42)
              [] k = "canny_low" -> IntV(50)
              [] k = "canny_high" -> IntV(150)
              [] k = "sharpen_radius" -> IntV(2)
              [] k = "sharpen_percent" -> IntV(150)
              [] k = "sharpen_threshold" -> IntV(3)]
    [] cls = "PencilSketchPipeline" ->
         [k \in {"sigma", "contrast_factor", "output_mode"} |->
            CASE k = "sigma" -> IntV(21)
              [] k = "contrast_factor" -> FloatV(1300)
              [] k = "output_mode" -> StrV("L")]
    [] cls = "BetweenLinesPipeline" ->
         [k \in {"blur_length", "num_levels", "edge_threshold"} |->
            CASE k = "blur_length" -> IntV(15)
              [] k = "num_levels" -> IntV(4)
              [] k = "edge_threshold" -> IntV(30)]
    [] cls \in {"PopScreenprintPipeline", "PopCoastalPipeline", "PopRebelPipeline"} ->
         [k \in {"posterization", "pre_smooth", "edges", "sharpen", "texture"} |->
            CASE k = "posterization" -> MapV(PosterizationKeys)
              [] k = "pre_smooth" -> MapV(PreSmoothKeys)
              [] k = "edges" -> MapV(EdgeKeys)
              [] k = "sharpen" -> MapV(SharpenKeys)
              [] k = "texture" -> MapV(TextureKeys)]
    [] cls = "PopCoastalPosterPipeline" ->
         [k \in {"posterization", "highlight_clip", "pre_smooth", "edges",
                 "sharpen", "texture"} |->
            CASE k = "posterization" -> MapV(PosterizationKeys)
              [] k = "highlight_clip" -> MapV(HighlightKeys)
              [] k = "pre_smooth" -> MapV(PreSmoothKeys)
              [] k = "edges" -> MapV(PosterEdgeKeys)
              [] k = "sharpen" -> MapV(SharpenKeys)
              [] k = "texture" -> MapV(PosterTextureKeys)]

\* dict.get(key, default)
Get(cfg, key, default) == IF key \in DOMAIN cfg THEN cfg[key] ELSE default

\* isinstance(v, int) / isinstance(v, (int, float))
IsInt(v) == v.t = "int"
IsNumber(v) == v.t \in {"int", "float"}

\* the set difference set(self.config.keys()) - allowed_params and the raise
InvalidParams(cfg, allowed) ==
  IF DOMAIN cfg \ allowed # {}
    THEN ValueErrorOf("Invalid config parameters", DOMAIN cfg \ allowed)
    ELSE NoError

\* mutant of PopPosterValidate: the upper bound of k is exclusive
PopPosterValidateExclusive(cfg) ==
  LET allowed == {"k", "seed", "canny_low", "canny_high", "sharpen_radius",
                  "sharpen_percent", "sharpen_threshold"}
      k == Get(cfg, "k", IntV(8))
  IN IF InvalidParams(cfg, allowed) # NoError THEN InvalidParams(cfg, allowed)
     ELSE IF ~IsInt(k) \/ k.n < 2 \/ k.n >= 256
       THEN ValueErrorOf("k must be integer between 2 and 256", {"k"})
     ELSE NoError

\* _validate_config of each class: the exception it raises, or NoError
PopPosterValidate(cfg) ==
  LET allowed == {"k", "seed", "canny_low", "canny_high", "sharpen_radius",
                  "sharpen_percent", "sharpen_threshold"}
      k == Get(cfg, "k", IntV(8))
  IN IF InvalidParams(cfg, allowed) # NoError THEN InvalidParams(cfg, allowed)
     ELSE IF ~IsInt(k) \/ k.n < 2 \/ k.n > 256
       THEN ValueErrorOf("k must be integer between 2 and 256", {"k"})
     ELSE NoError

PencilSketchValidate(cfg) ==
  LET allowed == {"sigma", "contrast_factor", "output_mode"}
      sigma == Get(cfg, "sigma", IntV(21))
      contrast == Get(cfg, "contrast_factor", FloatV(1300))
  IN IF InvalidParams(cfg, allowed) # NoError THEN InvalidParams(cfg, allowed)
     ELSE IF ~IsNumber(sigma) \/ sigma.n <= 0
       THEN ValueErrorOf("sigma must be positive number", {"sigma"})
     ELSE IF ~IsNumber(contrast) \/ contrast.n <= 0
       THEN ValueErrorOf("contrast_factor must be positive", {"contrast_factor"})
     ELSE NoError

BetweenLinesValidate(cfg) ==
  LET allowed == {"blur_length", "num_levels", "edge_threshold"}
      blur_length == Get(cfg, "blur_length", IntV(15))
      num_levels == Get(cfg, "num_levels", IntV(4))
  IN IF InvalidParams(cfg, allowed) # NoError THEN InvalidParams(cfg, allowed)
     ELSE IF ~IsInt(blur_length) \/ blur_length.n < 1
       THEN ValueErrorOf("blur_length must be positive integer", {"blur_length"})
     ELSE IF ~IsInt(num_levels) \/ num_levels.n < 2 \/ num_levels.n > 256
       THEN ValueErrorOf("num_levels must be integer 2-256", {"num_levels"})
     ELSE NoError

\* RenderPipeline._validate_config: pass
BaseValidate(cfg) == NoError

ValidateConfig(cls, cfg) ==
  CASE cls = "PopPosterPipeline" -> PopPosterValidate(cfg)
    [] cls = "PencilSketchPipeline" -> PencilSketchValidate(cfg)
    [] cls = "BetweenLinesPipeline" -> BetweenLinesValidate(cfg)
    [] cls \in ScreenprintFamily -> BaseValidate(cfg)

\* mutant of MergedConfig: nested sub-maps are merged key by key
MergedConfigDeep(cls, cfg) ==
  [k \in DOMAIN GetDefaultConfig(cls) \cup DOMAIN cfg |->
     IF k \notin DOMAIN cfg THEN GetDefaultConfig(cls)[k]
     ELSE IF k \in DOMAIN GetDefaultConfig(cls) /\ cfg[k].t = "map"
             /\ GetDefaultConfig(cls)[k].t = "map"
       THEN MapV(cfg[k].ks \cup GetDefaultConfig(cls)[k].ks)
     ELSE cfg[k]]

\* config = {**self.get_default_config(), **self.config}
MergedConfig(cls, cfg) ==
  [k \in DOMAIN GetDefaultConfig(cls) \cup DOMAIN cfg |->
     IF k \in DOMAIN cfg THEN cfg[k] ELSE GetDefaultConfig(cls)[k]]

\* the sub-keys render reads with config[section][key] (not with .get)
SubscriptedKeys(cls, section) ==
  CASE section = "posterization" ->
         IF cls = "PopCoastalPosterPipeline" THEN {"palette"}
         ELSE {"palette", "colorspace"}
    [] section = "highlight_clip" -> {"enabled", "threshold"}
    [] section = "pre_smooth" -> {"d", "sigmaColor", "sigmaSpace"}
    [] section = "edges" -> {"low", "high", "color"}
    [] section = "sharpen" -> {"radius", "percent", "threshold"}
    [] section = "texture" -> {}

\* the parameters render hands to numeric library calls (KMeans, cv2.Canny,
\* UnsharpMask, the magnitude comparison); Pencil Sketch's are all validated
NumericParams(cls) ==
  CASE cls = "PopPosterPipeline" ->
         {"k", "seed", "canny_low", "canny_high", "sharpen_radius",
          "sharpen_percent", "sharpen_threshold"}
    [] cls = "PencilSketchPipeline" -> {"sigma", "contrast_factor"}
    [] cls = "BetweenLinesPipeline" -> {"blur_length", "num_levels", "edge_threshold"}
    [] cls \in ScreenprintFamily -> {}

\* render on a valid image: the exception a configuration value causes, or NoError
RenderError(cls, cfg) ==
  LET config == MergedConfig(cls, cfg)
      sections == IF cls \in ScreenprintFamily THEN DOMAIN GetDefaultConfig(cls) ELSE {}
      notdict == {k \in sections : config[k].t # "map"}
      missing == {k \in sections :
                    config[k].t = "map" /\ ~(SubscriptedKeys(cls, k) \subseteq config[k].ks)}
      nonnum == {k \in NumericParams(cls) : ~IsNumber(config[k])}
  IN IF notdict # {} THEN ValueErrorOf("TypeError", notdict)
     ELSE IF missing # {} THEN ValueErrorOf("KeyError", missing)
     ELSE IF nonnum # {} THEN ValueErrorOf("TypeError", nonnum)
     ELSE NoError

\* the override values tried
ConfigValues ==
  {IntV(1), IntV(2), IntV(256), IntV(257), FloatV(1), FloatV(0), StrV("five"),
   StrV("RGB"), MapV({}),
   MapV(PosterizationKeys \cup PreSmoothKeys \cup PosterEdgeKeys \cup SharpenKeys
        \cup HighlightKeys)}

\* the override keys tried: the documented ones and one undocumented key
ConfigKeys(cls) == DOMAIN GetDefaultConfig(cls) \cup {"bogus"}

ConfigsOf(cls) ==
  UNION {[ks -> ConfigValues] :
           ks \in {x \in SUBSET ConfigKeys(cls) : Cardinality(x) <= MaxOverrides}}

CfgInit ==
  /\ p_cls = Null
  /\ p_config = <<>>
  /\ p_state = "none"
  /\ p_error = NoError
  /\ p_resolved = <<>>

\* RenderPipeline.__init__(algorithm_config)
Construct(cls, cfg) ==
  /\ p_state = "none"
  /\ p_cls' = cls
  /\ p_config' = cfg
  /\ p_error' = ValidateConfig(cls, cfg)
  /\ p_state' = IF ValidateConfig(cls, cfg) = NoError THEN "constructed" ELSE "rejected"
  /\ p_resolved' = <<>>

\* pipeline.render(image) on a well-formed image
Render ==
  /\ p_state \in {"constructed", "rendered"}
  /\ p_error' = RenderError(p_cls, p_config)
  /\ p_state' = IF RenderError(p_cls, p_config) = NoError THEN "rendered"
                ELSE "render_error"
  /\ p_resolved' = MergedConfig(p_cls, p_config)
  /\ UNCHANGED <<p_cls, p_config>>

\* the caller assigns caller_dict[key] = value on the dict it handed to the
\* constructor: self.config is that same object whenever the dict was not
\* empty (`algorithm_config or {}`)
MutateCallerDict(key, value) ==
  /\ p_state \in {"constructed", "rendered", "render_error"}
  /\ key \in DOMAIN p_config
  /\ value # p_config[key]
  /\ p_config' = [p_config EXCEPT ![key] = value]
  /\ p_resolved' = <<>>
  /\ UNCHANGED <<p_cls, p_state, p_error>>

\* the pipeline object (or the failed construction) is dropped
Discard ==
  /\ p_state # "none"
  /\ p_cls' = Null
  /\ p_config' = <<>>
  /\ p_state' = "none"
  /\ p_error' = NoError
  /\ p_resolved' = <<>>

(* ============================== Upscaler ============================== *)
\* MODELS["espcn"]: the scales a model file may exist for
ModelScales == {2, 3, 4}

\* an image object: obj is its identity, w and h its size
Img(obj, w, h) == [obj |-> obj, w |-> w, h |-> h]
NoImage == Img(0, 0, 0)

\* image.resize(size, LANCZOS): a new image object of exactly that size
Resize(image, size) == Img(image.obj + 1, size[1], size[2])

\* floats are kept as fractions <<numerator, denominator>>
Leq(a, b) == a[1] * b[2] <= b[1] * a[2]
Lt(a, b) == a[1] * b[2] < b[1] * a[2]
One == <<1, 1>>
\* min_scale_for_ai = 1.5
min_scale_for_ai == <<3, 2>>

\* Upscaler.calculate_scale_factor
calculate_scale_factor(input_size, target_size) ==
  LET width_scale == <<target_size[1], input_size[1]>>
      height_scale == <<target_size[2], input_size[2]>>
  IN IF Leq(width_scale, height_scale) THEN height_scale ELSE width_scale

SetMax(S) == CHOOSE x \in S : \A y \in S : y <= x
SetMin(S) == CHOOSE x \in S : \A y \in S : x <= y

\* the scale of one AI pass: the largest available s with s <= remaining * 1.2,
\* else the smallest available one; 0 when no scale is available
BestScale(target_scale, current_scale, avail) ==
  LET fits == {s \in avail : 5 * s * current_scale * target_scale[2]
                               <= 6 * target_scale[1]}
  IN IF fits # {} THEN SetMax(fits)
     ELSE IF avail # {} THEN SetMin(avail)
     ELSE 0

\* mutant of AiPasses: the loop body runs once
AiPassesOnce(target_scale, current_scale, avail) ==
  IF ~Lt(<<current_scale, 1>>, target_scale) \/ avail = {} THEN <<>>
  ELSE <<BestScale(target_scale, current_scale, avail)>>

\* the while loop of _ai_upscale: the scales applied, pass by pass
RECURSIVE AiPasses(_, _, _)
AiPasses(target_scale, current_scale, avail) ==
  IF ~Lt(<<current_scale, 1>>, target_scale) THEN <<>>
  ELSE LET best_scale == BestScale(target_scale, current_scale, avail)
       IN IF best_scale = 0 THEN <<>>
          ELSE <<best_scale>> \o AiPasses(target_scale, current_scale * best_scale, avail)

RECURSIVE Product(_)
Product(seq) == IF seq = <<>> THEN 1 ELSE Head(seq) * Product(Tail(seq))

Range(seq) == {seq[i] : i \in DOMAIN seq}

\* _ai_upscale: a new image, each pass multiplying both sides by its scale
AiUpscale(image, passes) ==
  Img(image.obj + 1, image.w * Product(passes), image.h * Product(passes))

\* mutant of NoUpscaleNeeded: strict comparison
NoUpscaleNeededStrict(scale_factor) == Lt(scale_factor, One)

\* if scale_factor <= 1.0
NoUpscaleNeeded(scale_factor) == Leq(scale_factor, One)

\* mutant of UseLanczos: missing models do not select the classical branch
UseLanczosBelowThresholdOnly(scale_factor, avail) == Lt(scale_factor, min_scale_for_ai)

\* if scale_factor < min_scale_for_ai or not self.available_scales
UseLanczos(scale_factor, avail) == Lt(scale_factor, min_scale_for_ai) \/ avail = {}

\* mutant of FinalResize: the corrective resample is left out
FinalResizeSkipped(image, target_size) == image

\* if result.size != target_size: result = result.resize(target_size, LANCZOS)
FinalResize(image, target_size) ==
  IF <<image.w, image.h>> # target_size THEN Resize(image, target_size) ELSE image

\* _get_sr_model cache key f"{model_type}_{scale}"
CacheKey(scale) == <<"espcn", scale>>

UpInit ==
  /\ available_scales \in SUBSET ModelScales
  /\ sr_cache = {}
  /\ up_image = NoImage
  /\ up_target = <<0, 0>>
  /\ up_result = NoImage
  /\ up_resamples = 0
  /\ up_loads = {}
  /\ up_passes = <<>>
  /\ up_state = "idle"

\* Upscaler.upscale(image, target_size)
Upscale(image, target_size) ==
  LET scale_factor == calculate_scale_factor(<<image.w, image.h>>, target_size)
      passes == AiPasses(scale_factor, 1, available_scales)
      ai == AiUpscale(image, passes)
      final == FinalResize(ai, target_size)
  IN /\ up_state = "idle"
     /\ up_image' = image
     /\ up_target' = target_size
     /\ up_state' = "returned"
     /\ UNCHANGED available_scales
     /\ IF NoUpscaleNeeded(scale_factor)
          THEN /\ up_result' = image
               /\ up_resamples' = 0
               /\ up_loads' = {}
               /\ up_passes' = <<>>
               /\ UNCHANGED sr_cache
        ELSE IF UseLanczos(scale_factor, available_scales)
          THEN /\ up_result' = Resize(image, target_size)
               /\ up_resamples' = 1
               /\ up_loads' = {}
               /\ up_passes' = <<>>
               /\ UNCHANGED sr_cache
        ELSE /\ up_result' = final
             /\ up_resamples' = IF final = ai THEN 0 ELSE 1
             /\ up_loads' = {sc \in Range(passes) : CacheKey(sc) \notin sr_cache}
             /\ up_passes' = passes
             /\ sr_cache' = sr_cache \cup {CacheKey(sc) : sc \in Range(passes)}

\* the caller takes the returned image; the Upscaler and its cache live on
UpscaleDone ==
  /\ up_state = "returned"
  /\ up_image' = NoImage
  /\ up_target' = <<0, 0>>
  /\ up_result' = NoImage
  /\ up_resamples' = 0
  /\ up_loads' = {}
  /\ up_passes' = <<>>
  /\ up_state' = "idle"
  /\ UNCHANGED <<available_scales, sr_cache>>

(* =================== concurrent renders: global RNG =================== *)
Threads == 1..MaxThreads

\* the classes whose texture stage calls np.random.seed(42)
TexturedPipelines == {"PopScreenprintPipeline", "PopCoastalPosterPipeline"}

\* draws from np.random after the seed, with the default texture settings:
\* normal, random, normal in _apply_textures; normal in _apply_directional_texture
NumDraws(cls) == IF cls = "PopCoastalPosterPipeline" THEN 1 ELSE 3

\* the process starts with the global generator seeded from OS entropy
RngInit ==
  /\ np_random = [seeded |-> FALSE, drawn |-> 0]
  /\ t_pc = [t \in Threads |-> "idle"]
  /\ t_cls = [t \in Threads |-> Null]
  /\ t_out = [t \in Threads |-> <<>>]

\* a thread enters render and reaches the texture stage
BeginRender(t, cls) ==
  /\ t_pc[t] = "idle"
  /\ t_pc' = [t_pc EXCEPT ![t] = "seed"]
  /\ t_cls' = [t_cls EXCEPT ![t] = cls]
  /\ UNCHANGED <<np_random, t_out>>

\* np.random.seed(42)
SeedGlobal(t) ==
  /\ t_pc[t] = "seed"
  /\ np_random' = [seeded |-> TRUE, drawn |-> 0]
  /\ t_pc' = [t_pc EXCEPT ![t] = "draw"]
  /\ UNCHANGED <<t_cls, t_out>>

\* np.random.normal(...) / np.random.random(...): the next block of the
\* global stream, identified by its position after the last seed
DrawGlobal(t) ==
  /\ t_pc[t] = "draw"
  /\ t_out' = [t_out EXCEPT ![t] = Append(@, np_random)]
  /\ np_random' = [np_random EXCEPT !.drawn = @ + 1]
  /\ t_pc' = [t_pc EXCEPT ![t] =
                IF Len(t_out[t]) + 1 = NumDraws(t_cls[t]) THEN "done" ELSE "draw"]
  /\ UNCHANGED t_cls

(* ================ concurrent upscales: lazy singletons ================ *)
CacheInit ==
  /\ g_upscaler = 0
  /\ g_created = 0
  /\ g_caches = <<>>
  /\ g_loads = [sc \in ModelScales |-> 0]
  /\ u_pc = [t \in Threads |-> "idle"]
  /\ u_inst = [t \in Threads |-> 0]
  /\ u_scale = [t \in Threads |-> 0]

\* upscale_image -> get_upscaler: the test `_upscaler is None`
CheckSingleton(t) ==
  /\ u_pc[t] = "idle"
  /\ IF g_upscaler = 0
       THEN /\ u_pc' = [u_pc EXCEPT ![t] = "create"]
            /\ UNCHANGED u_inst
       ELSE /\ u_pc' = [u_pc EXCEPT ![t] = "upscale"]
            /\ u_inst' = [u_inst EXCEPT ![t] = g_upscaler]
  /\ UNCHANGED <<g_upscaler, g_created, g_caches, g_loads, u_scale>>

\* _upscaler = Upscaler(model_type="espcn"); return _upscaler
CreateSingleton(t) ==
  /\ u_pc[t] = "create"
  /\ g_created' = g_created + 1
  /\ g_upscaler' = g_created + 1
  /\ g_caches' = Append(g_caches, {})
  /\ u_inst' = [u_inst EXCEPT ![t] = g_created + 1]
  /\ u_pc' = [u_pc EXCEPT ![t] = "upscale"]
  /\ UNCHANGED <<g_loads, u_scale>>

\* _get_sr_model(scale): the test `cache_key not in self._sr_cache`
CheckCache(t, scale) ==
  /\ u_pc[t] = "upscale"
  /\ u_scale' = [u_scale EXCEPT ![t] = scale]
  /\ u_pc' = [u_pc EXCEPT ![t] =
                IF CacheKey(scale) \notin g_caches[u_inst[t]] THEN "load" ELSE "done"]
  /\ UNCHANGED <<g_upscaler, g_created, g_caches, g_loads, u_inst>>

\* sr.readModel(model_path); sr.setModel(...); self._sr_cache[cache_key] = sr
LoadModel(t) ==
  /\ u_pc[t] = "load"
  /\ g_loads' = [g_loads EXCEPT ![u_scale[t]] = @ + 1]
  /\ g_caches' = [g_caches EXCEPT ![u_inst[t]] = @ \cup {CacheKey(u_scale[t])}]
  /\ u_pc' = [u_pc EXCEPT ![t] = "done"]
  /\ UNCHANGED <<g_upscaler, g_created, u_inst, u_scale>>

(* ======================= render: image to image ====================== *)
\* largest width and height of an image handed to render
MaxSide == 5

\* number of render calls made on copies of one input
MaxCalls == 3

\* PIL image modes handed to render
Modes == {"L", "RGB", "RGBA"}

\* a PIL image as render sees it: mode and size
Raster(mode, w, h) == [mode |-> mode, w |-> w, h |-> h]
NoRaster == Raster("none", 0, 0)

\* np.array(image).shape[:2]: (rows, columns)
ArrayShape(image) == <<image.h, image.w>>

\* mutant of FromArraySize: rows and columns are not exchanged
FromArraySizeSwapped(shape) == <<shape[1], shape[2]>>

\* Image.fromarray(array).size: (columns, rows)
FromArraySize(shape) == <<shape[2], shape[1]>>

\* the values of the resolved configuration that decide an output's size,
\* mode and random draws: posterization seed, output_mode, the texture options
\* that are switched on, stretch_factor in halves
RenderCfg(seed, output_mode, texture, stretch2) ==
  [seed |-> seed, output_mode |-> output_mode, texture |-> texture,
   stretch2 |-> stretch2]
NoRenderCfg == RenderCfg(0, "L", {}, 0)

\* these values in get_default_config() of each class
DefaultRenderCfg(cls) ==
  CASE cls = "PencilSketchPipeline" -> RenderCfg(42, "L", {}, 4)
    [] cls \in {"PopScreenprintPipeline", "PopCoastalPipeline", "PopRebelPipeline"} ->
         RenderCfg(42, "RGB", {"paper_grain", "speckle", "ink_distress"}, 4)
    [] cls = "PopCoastalPosterPipeline" -> RenderCfg(42, "RGB", {"directional_ink"}, 4)
    [] OTHER -> RenderCfg(42, "RGB", {}, 4)

\* the configurations tried for each class: the default and overrides of it
RenderCfgsOf(cls) ==
  CASE cls = "PopPosterPipeline" -> {RenderCfg(sd, "RGB", {}, 4) : sd \in {42, 7}}
    [] cls = "PencilSketchPipeline" -> {RenderCfg(42, m, {}, 4) : m \in {"L", "RGB"}}
    [] cls = "BetweenLinesPipeline" -> {RenderCfg(42, "RGB", {}, 4)}
    [] cls \in {"PopScreenprintPipeline", "PopCoastalPipeline", "PopRebelPipeline"} ->
         {RenderCfg(42, "RGB", tx, 4) :
            tx \in SUBSET {"paper_grain", "speckle", "ink_distress"}}
    [] cls = "PopCoastalPosterPipeline" ->
         {RenderCfg(42, "RGB", tx, st) :
            tx \in SUBSET {"directional_ink"}, st \in {4, 1, 16}}

\* _apply_directional_texture: the shape of grain[:h, :w]; <<0, 0>> when the
\* noise array or the stretched array is empty and OpenCV rejects it
GrainShape(shape, stretch2) ==
  LET h == shape[1]
      w == shape[2]
      small_h == h \div 4
      small_w == w \div 4
      rows == (small_h * stretch2) \div 2
      repeats == (h \div rows) + 1
      tiled == IF rows < h THEN rows * repeats ELSE rows
  IN IF small_h = 0 \/ small_w = 0 \/ rows = 0 THEN <<0, 0>>
     ELSE <<IF tiled < h THEN tiled ELSE h, w>>

\* render raises on this input: KMeans with fewer pixels than clusters; a
\* grain array that cannot be multiplied onto the image
RenderFails(cls, cfg, image) ==
  CASE cls = "PopPosterPipeline" ->
         image.w * image.h < GetDefaultConfig("PopPosterPipeline")["k"].n
    [] cls = "PopCoastalPosterPipeline" ->
         /\ "directional_ink" \in cfg.texture
         /\ GrainShape(ArrayShape(image), cfg.stretch2) # ArrayShape(image)
    [] OTHER -> FALSE

\* mode of the image render returns
OutputMode(cls, cfg, image) ==
  CASE cls = "PencilSketchPipeline" ->
         IF cfg.output_mode = "RGB" THEN "RGB" ELSE "L"
    [] cls = "BetweenLinesPipeline" ->
         IF image.mode \in {"RGB", "RGBA"} THEN "RGB" ELSE "L"
    [] OTHER -> "RGB"

\* mutant of RandomSeed: the generator is not re-seeded
RandomSeedSkipped(rng) == rng

\* np.random.seed(42)
RandomSeed(rng) == [seeded |-> TRUE, drawn |-> 0]

\* the texture stage calls np.random.seed(42)
SeedsGlobal(cls, cfg) ==
  \/ cls \in {"PopScreenprintPipeline", "PopCoastalPipeline", "PopRebelPipeline"}
  \/ cls = "PopCoastalPosterPipeline" /\ "directional_ink" \in cfg.texture

\* number of non-empty blocks the texture stage draws from np.random
TextureDraws(cls, cfg, image) ==
  CASE cls \in {"PopScreenprintPipeline", "PopCoastalPipeline", "PopRebelPipeline"} ->
         Cardinality(cfg.texture)
    [] cls = "PopCoastalPosterPipeline" ->
         IF "directional_ink" \in cfg.texture /\ image.h \div 4 > 0 /\ image.w \div 4 > 0
           THEN 1 ELSE 0
    [] OTHER -> 0

\* the global generator as the texture stage finds it after its seed call
SeededRng(cls, cfg, rng) == IF SeedsGlobal(cls, cfg) THEN RandomSeed(rng) ELSE rng

\* the blocks n successive draws return from a generator in state rng
Draws(rng, n) == [i \in 1..n |-> [seeded |-> rng.seeded, drawn |-> rng.drawn + i - 1]]

\* the global generator after render
RngAfter(cls, cfg, image, rng) ==
  [SeededRng(cls, cfg, rng) EXCEPT !.drawn = @ + TextureDraws(cls, cfg, image)]

RenderRaised == [mode |-> "error", w |-> 0, h |-> 0, noise |-> <<>>, kmeans |-> 0]

\* pipeline.render(image): mode and size of the returned image; its pixels are
\* a function of the input, the configuration, the KMeans random_state and the
\* noise blocks drawn
RenderOut(cls, cfg, image, rng) ==
  IF RenderFails(cls, cfg, image) THEN RenderRaised
  ELSE [mode |-> OutputMode(cls, cfg, image),
        w |-> FromArraySize(ArrayShape(image))[1],
        h |-> FromArraySize(ArrayShape(image))[2],
        noise |-> Draws(SeededRng(cls, cfg, rng), TextureDraws(cls, cfg, image)),
        kmeans |-> IF cls = "PopPosterPipeline" THEN cfg.seed ELSE 0]

RenderInit ==
  /\ rn_cls = Null
  /\ rn_cfg = NoRenderCfg
  /\ rn_image = NoRaster
  /\ rn_calls = <<>>

\* a pipeline class, a configuration and an input image are chosen
TakeInput(cls, cfg, image) ==
  /\ rn_cls = Null
  /\ rn_cls' = cls
  /\ rn_cfg' = cfg
  /\ rn_image' = image
  /\ rn_calls' = <<>>
  /\ UNCHANGED np_random

\* render(copy of rn_image) on instance number inst: an instance used before,
\* or one constructed for this call with the same configuration
CallRender(inst) ==
  /\ rn_cls # Null
  /\ Len(rn_calls) < MaxCalls
  /\ rn_calls' = Append(rn_calls,
                        [inst |-> inst,
                         out |-> RenderOut(rn_cls, rn_cfg, rn_image, np_random)])
  /\ np_random' = RngAfter(rn_cls, rn_cfg, rn_image, np_random)
  /\ UNCHANGED <<rn_cls, rn_cfg, rn_image>>

\* the input and its outputs are dropped; the process and its generator live on
DropInput ==
  /\ rn_cls # Null
  /\ rn_calls # <<>>
  /\ rn_cls' = Null
  /\ rn_cfg' = NoRenderCfg
  /\ rn_image' = NoRaster
  /\ rn_calls' = <<>>
  /\ UNCHANGED np_random

(* ============ process_render: target, upscale, render, encode ========= *)
\* preview_width = min(1200, output_image.width)
PreviewMaxWidth == 1200

\* size_presets rows: width_inches and height_inches are NUMERIC values, kept
\* here in hundredths of an inch; dpi is an integer
Preset(width_inches, height_inches, dpi) ==
  [width_inches |-> width_inches, height_inches |-> height_inches, dpi |-> dpi]
NoPreset == Preset(0, 0, 0)

\* the presets tried: 4, 8.27 and 12 inches at 150 and 300 dpi
Presets ==
  {Preset(wi, hi, d) : wi \in {400, 827, 1200}, hi \in {400, 827, 1200},
                       d \in {150, 300}}

\* sizes of the source images tried: small, mid-sized portrait, large landscape
SourceSizes == {<<100, 100>>, <<900, 1350>>, <<4000, 3000>>}

\* int(inches * dpi): the NUMERIC product is exact, int() drops the fraction
TargetPixels(inches, dpi) == (inches * dpi) \div 100

\* upscale_image(image, target_size): the size of the image it returns
upscale_image(size, target_size, scales) ==
  LET image == Img(0, size[1], size[2])
      scale_factor == calculate_scale_factor(size, target_size)
      ai == AiUpscale(image, AiPasses(scale_factor, 1, scales))
      upscaled == IF NoUpscaleNeeded(scale_factor) THEN image
                  ELSE IF UseLanczos(scale_factor, scales) THEN Resize(image, target_size)
                  ELSE FinalResize(ai, target_size)
  IN <<upscaled.w, upscaled.h>>

\* mutant of ResizeToTarget: the output is left at the size render returned
ResizeToTargetSkipped(size, target_size) == size

\* if output_image.size != (target_width, target_height): resize(...)
ResizeToTarget(size, target_size) == IF size # target_size THEN target_size ELSE size

\* preview_width, preview_height; the float product h * (pw / w) equals the
\* exact quotient for every size these presets produce
PreviewSize(size) ==
  LET preview_width == IF PreviewMaxWidth < size[1] THEN PreviewMaxWidth ELSE size[1]
  IN <<preview_width, (size[2] * preview_width) \div size[1]>>

\* styles.algorithm_config values a job may find: none, an override every
\* pipeline rejects as unknown or out of range, and one Pop Poster accepts
StoredConfigs ==
  {<<>>, [k |-> IntV(257)], [k |-> IntV(16)], [blur_length |-> IntV(0)]}

\* mutant of PipelineArgs: the stored configuration is handed to the class
PipelineArgsStored(algorithm_config) == algorithm_config

\* pipeline_class(): the algorithm_config argument the constructor receives
\* (None, which __init__ turns into {}), whatever the style's row holds
PipelineArgs(algorithm_config) == <<>>

ImageInit ==
  /\ im_pc = "target"
  /\ im_preset \in Presets
  /\ im_scales \in SUBSET ModelScales
  /\ im_source \in SourceSizes
  /\ im_cls \in {PIPELINE_MAP[s] : s \in DOMAIN PIPELINE_MAP}
  /\ im_algorithm_config \in StoredConfigs
  /\ im_error = NoError
  /\ im_resolved = <<>>
  /\ im_target = <<0, 0>>
  /\ im_image = <<0, 0>>
  /\ im_output = <<0, 0>>
  /\ im_preview = <<0, 0>>

\* target_width, target_height, target_size; Image.open(input_path)
ComputeTarget ==
  /\ im_pc = "target"
  /\ im_target' = <<TargetPixels(im_preset.width_inches, im_preset.dpi),
                    TargetPixels(im_preset.height_inches, im_preset.dpi)>>
  /\ im_image' = im_source
  /\ im_pc' = "upscale"
  /\ UNCHANGED <<im_preset, im_scales, im_source, im_cls, im_output, im_preview,
                 im_algorithm_config, im_error, im_resolved>>

\* source_image = upscale_image(source_image, target_size)
UpscaleSource ==
  /\ im_pc = "upscale"
  /\ im_image' = upscale_image(im_image, im_target, im_scales)
  /\ im_pc' = "render"
  /\ UNCHANGED <<im_preset, im_scales, im_source, im_cls, im_target, im_output,
                 im_preview, im_algorithm_config, im_error, im_resolved>>

\* pipeline = pipeline_class(); output_image = pipeline.render(source_image)
RenderSource ==
  LET args == PipelineArgs(im_algorithm_config)
      cfg == DefaultRenderCfg(im_cls)
      out == RenderOut(im_cls, cfg, Raster("RGB", im_image[1], im_image[2]), np_random)
  IN /\ im_pc = "render"
     /\ im_error' = ValidateConfig(im_cls, args)
     /\ IF ValidateConfig(im_cls, args) # NoError
          THEN im_pc' = "failed" /\ UNCHANGED <<im_image, im_resolved>>
        ELSE IF RenderError(im_cls, args) # NoError \/ out.mode = "error"
          THEN /\ im_pc' = "failed"
               /\ im_resolved' = MergedConfig(im_cls, args)
               /\ UNCHANGED im_image
        ELSE /\ im_pc' = "resize"
             /\ im_resolved' = MergedConfig(im_cls, args)
             /\ im_image' = <<out.w, out.h>>
     /\ UNCHANGED <<im_preset, im_scales, im_source, im_cls, im_target, im_output,
                    im_preview, im_algorithm_config>>

\* the resize of output_image to the target dimensions
ResizeOutput ==
  /\ im_pc = "resize"
  /\ im_image' = ResizeToTarget(im_image, im_target)
  /\ im_pc' = "tiff"
  /\ UNCHANGED <<im_preset, im_scales, im_source, im_cls, im_target, im_output,
                 im_preview, im_algorithm_config, im_error, im_resolved>>

\* output_image.save(output_path, format='TIFF', ...)
EncodeTiff ==
  /\ im_pc = "tiff"
  /\ im_output' = im_image
  /\ im_pc' = "preview"
  /\ UNCHANGED <<im_preset, im_scales, im_source, im_cls, im_target, im_image,
                 im_preview, im_algorithm_config, im_error, im_resolved>>

\* preview_image = output_image.resize((preview_width, preview_height));
\* preview_image.convert('RGB').save(preview_path, format='JPEG', ...)
EncodePreview ==
  /\ im_pc = "preview"
  /\ im_preview' = PreviewSize(im_image)
  /\ im_pc' = "encoded"
  /\ UNCHANGED <<im_preset, im_scales, im_source, im_cls, im_target, im_image,
                 im_output, im_algorithm_config, im_error, im_resolved>>

(* ============ Between The Lines: directional motion blur ============== *)
\* pixels of the image the blur works on
MaxBlurPixels == 1

\* angles are counted in sixteenths of pi
Pi == 16
\* num_directions = 8
num_directions == 8
\* direction_step = 2 * pi / num_directions
direction_step == (2 * Pi) \div num_directions
\* get_default_config()['edge_threshold']
edge_threshold == 30

\* np.arctan2(grad_y, grad_x): an angle in [-pi, pi]
Thetas == (-Pi)..Pi
\* gradient magnitudes: none, just below, at and above the threshold
Magnitudes == {0, edge_threshold - 1, edge_threshold, edge_threshold + 1}

Pixel(theta, magnitude) == [theta |-> theta, magnitude |-> magnitude]

\* _gradient_direction: the gradient angle turned by 90 degrees
GradientDirection(theta) == theta + Pi \div 2

\* the mask of bin i, before the magnitude test: angle_min <= d < angle_max,
\* with `|` in place of `&` for bin 0
InBin(i, direction) ==
  IF i = 0
  THEN \/ 2 * direction >= 2 * i * direction_step - direction_step
       \/ 2 * direction < 2 * i * direction_step + direction_step
  ELSE /\ 2 * direction >= 2 * i * direction_step - direction_step
       /\ 2 * direction < 2 * i * direction_step + direction_step

\* the bins whose mask holds a pixel: mask & (magnitude >= edge_threshold)
BinsOf(pixel) ==
  {i \in 0..(num_directions - 1) :
     InBin(i, GradientDirection(pixel.theta)) /\ pixel.magnitude >= edge_threshold}

\* the axis of bin i's Gaussian: `if abs(dx) > abs(dy)` with dx = cos(angle),
\* dy = sin(angle) in double precision, where the diagonals come out as
\* cos(pi/4) > sin(pi/4), |cos(3pi/4)| < sin(3pi/4), |cos(5pi/4)| > |sin(5pi/4)|,
\* cos(7pi/4) < |sin(7pi/4)|
BlurAxis(i) == IF i \in {0, 1, 4, 5} THEN "horizontal" ELSE "vertical"

\* result[mask] += blurred_directional[mask] over the bins; result /= counts;
\* a pixel no bin holds keeps the original value
AveragedAxes(pixel) ==
  IF BinsOf(pixel) = {} THEN {"original"} ELSE {BlurAxis(i) : i \in BinsOf(pixel)}

BlurInit ==
  /\ bl_pixels = <<>>
  /\ bl_bins = <<>>
  /\ bl_axes = <<>>
  /\ bl_state = "idle"

\* _sobel_edges and np.arctan2: the gradient of every pixel
SobelEdges(pixels) ==
  /\ bl_state = "idle"
  /\ bl_pixels' = pixels
  /\ bl_state' = "edges"
  /\ UNCHANGED <<bl_bins, bl_axes>>

\* _directional_motion_blur
DirectionalMotionBlur ==
  /\ bl_state = "edges"
  /\ bl_bins' = [p \in DOMAIN bl_pixels |-> BinsOf(bl_pixels[p])]
  /\ bl_axes' = [p \in DOMAIN bl_pixels |-> AveragedAxes(bl_pixels[p])]
  /\ bl_state' = "blurred"
  /\ UNCHANGED bl_pixels

\* render returns; the next call begins with a new image
BlurReturn ==
  /\ bl_state = "blurred"
  /\ bl_pixels' = <<>>
  /\ bl_bins' = <<>>
  /\ bl_axes' = <<>>
  /\ bl_state' = "idle"

(* ================== create_render and the render queue ================ *)
\* POST /renders requests one process answers
MaxRequests == 3

ApiInit ==
  /\ a_pc = "idle"
  /\ a_id = 0
  /\ a_rows = <<>>
  /\ a_uploads = {}
  /\ a_queue = <<>>
  /\ a_resp = <<>>

\* the answer of the request being handled
Answer(code) ==
  /\ a_resp' = Append(a_resp, code)
  /\ a_pc' = "idle"

\* the validation of the request: file, form fields, image, style, preset;
\* then the ids are generated
ValidateRequest ==
  /\ a_pc = "idle"
  /\ a_id < MaxRequests
  /\ a_id' = a_id + 1
  /\ a_rows' = Append(a_rows, Null)
  /\ \/ a_pc' = "upload" /\ UNCHANGED a_resp
     \/ Answer(400)
  /\ UNCHANGED <<a_uploads, a_queue>>

\* storage.upload_fileobj(file, minio_key, ...)
UploadFile ==
  /\ a_pc = "upload"
  /\ \/ /\ a_uploads' = a_uploads \cup {a_id}
        /\ a_pc' = "insert"
        /\ UNCHANGED a_resp
     \/ /\ Answer(500)
        /\ UNCHANGED a_uploads
  /\ UNCHANGED <<a_id, a_rows, a_queue>>

\* the INSERTs of the asset and of the render with status 'queued'; when they
\* fail the uploaded object is deleted (a failing delete is passed over)
InsertRecords ==
  /\ a_pc = "insert"
  /\ \/ /\ a_rows' = [a_rows EXCEPT ![a_id] = "queued"]
        /\ a_pc' = "enqueue"
        /\ UNCHANGED <<a_resp, a_uploads>>
     \/ /\ Answer(500)
        /\ a_uploads' \in {a_uploads \ {a_id}, a_uploads}
        /\ UNCHANGED a_rows
  /\ UNCHANGED <<a_id, a_queue>>

\* `except Exception` around enqueue_render and the rq_job_id UPDATE: the
\* error is logged and the handler goes on to the 201 answer
EnqueueFailed == a_pc' = "respond" /\ UNCHANGED a_resp

\* queue_mgr.enqueue_render(...) and the UPDATE of rq_job_id
EnqueueJob ==
  /\ a_pc = "enqueue"
  /\ \/ /\ a_queue' = Append(a_queue, a_id)
        /\ a_pc' = "respond"
        /\ UNCHANGED a_resp
     \/ /\ EnqueueFailed
        /\ UNCHANGED a_queue
  /\ UNCHANGED <<a_id, a_rows, a_uploads>>

\* return jsonify({render_id, status: 'queued', created_at}), 201
Respond ==
  /\ a_pc = "respond"
  /\ Answer(201)
  /\ UNCHANGED <<a_id, a_rows, a_uploads, a_queue>>

\* a worker takes the job at the head of the queue and runs process_render,
\* whose first statement moves the record to 'started'
WorkerTakesJob ==
  /\ a_queue # <<>>
  /\ a_rows' = [a_rows EXCEPT ![Head(a_queue)] = "started"]
  /\ a_queue' = Tail(a_queue)
  /\ UNCHANGED <<a_pc, a_id, a_uploads, a_resp>>

(* ==================== DatabasePool.get_connection ===================== *)
\* connections the pool was initialized with (max_connections)
MaxConnections == 1

Connections == 1..MaxConnections

\* how the body of a `with db_pool.get_connection()` can end: normally, with
\* an Exception, or with a BaseException that is no Exception
\* (KeyboardInterrupt, SystemExit, GeneratorExit)
BodyOutcomes == {"ok", "exception", "base_exception"}

PoolInit ==
  /\ pl_free = Connections
  /\ pl_pc = [t \in Threads |-> "idle"]
  /\ pl_conn = [t \in Threads |-> 0]
  /\ pl_body = [t \in Threads |-> "none"]
  /\ pl_txn = [t \in Threads |-> <<>>]
  /\ pl_raised = [t \in Threads |-> FALSE]

\* the connections that are checked out
CheckedOut == Connections \ pl_free

\* mutant of Caught: the clause catches everything the body can raise
CaughtAny(outcome) == outcome # "ok"

\* `except Exception as e`: what the clause catches
Caught(outcome) == outcome = "exception"

\* conn = self._pool.getconn(); conn.autocommit = False; yield conn.
\* getconn raises when the pool is exhausted or the connect fails: conn is
\* still None, nothing is rolled back or put back, the error is raised
GetConn(t) ==
  /\ pl_pc[t] = "idle"
  /\ pl_body' = [pl_body EXCEPT ![t] = "none"]
  /\ pl_txn' = [pl_txn EXCEPT ![t] = <<>>]
  /\ \/ \E c \in pl_free :
          /\ pl_free' = pl_free \ {c}
          /\ pl_conn' = [pl_conn EXCEPT ![t] = c]
          /\ pl_pc' = [pl_pc EXCEPT ![t] = "body"]
          /\ pl_raised' = [pl_raised EXCEPT ![t] = FALSE]
     \/ /\ pl_raised' = [pl_raised EXCEPT ![t] = TRUE]
        /\ UNCHANGED <<pl_free, pl_conn, pl_pc>>

\* the body of the with statement ends and the generator goes on from yield
BodyEnds(t, outcome) ==
  /\ pl_pc[t] = "body"
  /\ pl_body' = [pl_body EXCEPT ![t] = outcome]
  /\ pl_pc' = [pl_pc EXCEPT ![t] =
                 IF outcome = "ok" THEN "commit"
                 ELSE IF Caught(outcome) THEN "rollback"
                 ELSE "finally"]
  /\ pl_raised' = [pl_raised EXCEPT ![t] = outcome # "ok"]
  /\ UNCHANGED <<pl_free, pl_conn, pl_txn>>

\* conn.commit(); a commit that raises is caught by the except clause
Commit(t) ==
  /\ pl_pc[t] = "commit"
  /\ pl_txn' = [pl_txn EXCEPT ![t] = Append(@, "commit")]
  /\ \/ /\ pl_pc' = [pl_pc EXCEPT ![t] = "finally"]
        /\ UNCHANGED pl_raised
     \/ /\ pl_pc' = [pl_pc EXCEPT ![t] = "rollback"]
        /\ pl_raised' = [pl_raised EXCEPT ![t] = TRUE]
  /\ UNCHANGED <<pl_free, pl_conn, pl_body>>

\* if conn: conn.rollback(); logger.error(...); raise.  Whether the rollback
\* returns or raises, an exception leaves the generator
Rollback(t) ==
  /\ pl_pc[t] = "rollback"
  /\ pl_txn' = [pl_txn EXCEPT ![t] = Append(@, "rollback")]
  /\ pl_pc' = [pl_pc EXCEPT ![t] = "finally"]
  /\ UNCHANGED <<pl_free, pl_conn, pl_body, pl_raised>>

\* finally: if conn: self._pool.putconn(conn)
PutConn(t) ==
  /\ pl_pc[t] = "finally"
  /\ pl_free' = pl_free \cup {pl_conn[t]}
  /\ pl_conn' = [pl_conn EXCEPT ![t] = 0]
  /\ pl_pc' = [pl_pc EXCEPT ![t] = "idle"]
  /\ UNCHANGED <<pl_body, pl_txn, pl_raised>>

(* ===================== monitoring: background threads ================= *)
\* the three monitors start_monitoring creates
MonitorKinds == {"queue", "storage", "memory"}

\* monitor objects constructed per kind in one process
MaxMonitors == 2
\* threading.Thread objects one monitor object may create
MaxLoopThreads == 2
\* calls of start_monitoring, stop_monitoring, start() and stop() in one process
MaxMonitorCalls == 3
\* values a measurement (queue count, bucket bytes, rss) may take
Measurements == {42}

\* a monitor object after __init__
NewMonitor == [running |-> FALSE, stop_event |-> FALSE, threads |-> <<>>]

\* the child of a labelled Gauge: no sample before the first set()
NoSample == <<>>
Sample(v) == <<v>>

\* how one call of _update_queue_depth / _update_storage_size /
\* _update_memory_usage may end
UpdateOutcomes(kind) ==
  IF kind = "memory" THEN {"ok", "raised"} ELSE {"ok", "raised", "unavailable"}

\* mutant of GaugeAfterUpdate: a failed update leaves the gauge as it was
GaugeAfterUpdateKept(kind, outcome, measured, old) ==
  IF outcome = "ok" THEN Sample(measured) ELSE old

\* the gauge after one pass of the loop body: the update's set(), or the
\* set(-1) of the update's else branch or of the loop's except clause
GaugeAfterUpdate(kind, outcome, measured, old) ==
  IF outcome = "ok" THEN Sample(measured)
  ELSE IF kind = "memory" THEN old
  ELSE Sample(-1)

\* threads of a monitor object that have not left _monitor_loop
LiveThreads(mon) == {i \in DOMAIN mon.threads : mon.threads[i] # "exited"}

\* mutant of NeedsMonitor: the global is not looked at
NeedsMonitorAlways(g) == TRUE

\* start_monitoring: `if _queue_monitor is None` (and the two like it)
NeedsMonitor(g) == g = 0

\* monitor.start(): the object after the call
MonitorStarted(mon) ==
  IF mon.running THEN mon
  ELSE [running |-> TRUE, stop_event |-> FALSE,
        threads |-> Append(mon.threads, "waiting")]

\* monitor.stop(): the object after the call. join(timeout=5) on _thread: a
\* thread waiting on the event wakes up and leaves the loop, a thread inside
\* an update that outlasts the timeout is left behind
MonitorStopped(mon) ==
  IF ~mon.running THEN mon
  ELSE LET last == Len(mon.threads)
       IN [running |-> FALSE, stop_event |-> TRUE,
           threads |-> [i \in DOMAIN mon.threads |->
                          IF i = last /\ mon.threads[i] = "waiting"
                          THEN "exited" ELSE mon.threads[i]]]

MonitorInit ==
  /\ monitors = [k \in MonitorKinds |-> <<>>]
  /\ m_global = [k \in MonitorKinds |-> 0]
  /\ gauge = [k \in MonitorKinds |-> NoSample]
  /\ m_update = [kind |-> "none", outcome |-> "none"]
  /\ m_last = "none"
  /\ m_calls = 0
  /\ m_run = 0

\* start_monitoring()
StartMonitoring ==
  /\ m_calls < MaxMonitorCalls
  /\ \A k \in MonitorKinds :
       NeedsMonitor(m_global[k]) => Len(monitors[k]) < MaxMonitors
  /\ monitors' = [k \in MonitorKinds |->
                    IF NeedsMonitor(m_global[k])
                    THEN Append(monitors[k], MonitorStarted(NewMonitor))
                    ELSE monitors[k]]
  /\ m_global' = [k \in MonitorKinds |->
                    IF NeedsMonitor(m_global[k]) THEN Len(monitors[k]) + 1
                    ELSE m_global[k]]
  /\ m_last' = "start_monitoring"
  /\ m_calls' = m_calls + 1
  /\ m_run' = IF m_last = "start_monitoring" THEN m_run + 1 ELSE 1
  /\ UNCHANGED <<gauge, m_update>>

\* stop_monitoring()
StopMonitoring ==
  /\ m_calls < MaxMonitorCalls
  /\ monitors' = [k \in MonitorKinds |->
                    IF m_global[k] # 0
                    THEN [monitors[k] EXCEPT ![m_global[k]] = MonitorStopped(@)]
                    ELSE monitors[k]]
  /\ m_global' = [k \in MonitorKinds |-> 0]
  /\ m_last' = "stop_monitoring"
  /\ m_calls' = m_calls + 1
  /\ m_run' = IF m_last = "stop_monitoring" THEN m_run + 1 ELSE 1
  /\ UNCHANGED <<gauge, m_update>>

\* monitor.start() called on the monitor object a module global refers to
StartMonitor(kind, n) ==
  /\ m_calls < MaxMonitorCalls
  /\ n # 0
  /\ n = m_global[kind]
  /\ monitors[kind][n].running \/ Len(monitors[kind][n].threads) < MaxLoopThreads
  /\ monitors' = [monitors EXCEPT ![kind][n] = MonitorStarted(@)]
  /\ m_last' = "start"
  /\ m_calls' = m_calls + 1
  /\ m_run' = IF m_last = "start" THEN m_run + 1 ELSE 1
  /\ UNCHANGED <<m_global, gauge, m_update>>

\* monitor.stop() called on the monitor object a module global refers to
StopMonitor(kind, n) ==
  /\ m_calls < MaxMonitorCalls
  /\ n # 0
  /\ n = m_global[kind]
  /\ monitors' = [monitors EXCEPT ![kind][n] = MonitorStopped(@)]
  /\ m_last' = "stop"
  /\ m_calls' = m_calls + 1
  /\ m_run' = IF m_last = "stop" THEN m_run + 1 ELSE 1
  /\ UNCHANGED <<m_global, gauge, m_update>>

\* _monitor_loop: `while not self._stop_event.is_set()`, reached at thread
\* start and whenever _stop_event.wait(interval) returns
LoopCheck(kind, n, i) ==
  /\ n \in DOMAIN monitors[kind]
  /\ i \in DOMAIN monitors[kind][n].threads
  /\ monitors[kind][n].threads[i] = "waiting"
  /\ monitors' = [monitors EXCEPT ![kind][n].threads[i] =
                    IF monitors[kind][n].stop_event THEN "exited" ELSE "updating"]
  /\ UNCHANGED <<m_global, gauge, m_update, m_last, m_calls, m_run>>

\* _monitor_loop: the try/except around the update, up to the wait
LoopUpdate(kind, n, i, outcome, measured) ==
  /\ n \in DOMAIN monitors[kind]
  /\ i \in DOMAIN monitors[kind][n].threads
  /\ monitors[kind][n].threads[i] = "updating"
  /\ outcome \in UpdateOutcomes(kind)
  /\ gauge' = [gauge EXCEPT ![kind] = GaugeAfterUpdate(kind, outcome, measured, @)]
  /\ m_update' = [kind |-> kind, outcome |-> outcome]
  /\ monitors' = [monitors EXCEPT ![kind][n].threads[i] = "waiting"]
  /\ UNCHANGED <<m_global, m_last, m_calls, m_run>>

(* ========================== specifications ============================ *)
\* the variables of each part of the model, at rest while another part runs
OrchIdle ==
  /\ renders = <<>>
  /\ objects = {}
  /\ tmpfiles = {}
  /\ pc = "idle"
  /\ cur = 1
  /\ runs = 0
  /\ render_data = NoData
  /\ exc = Null
  /\ result = "none"
  /\ started_ok = FALSE
  /\ fail_write = "none"
  /\ log = {}
  /\ effects = {}
  /\ swallowed = {}

CfgIdle == CfgInit

UpIdle ==
  /\ available_scales = {}
  /\ sr_cache = {}
  /\ up_image = NoImage
  /\ up_target = <<0, 0>>
  /\ up_result = NoImage
  /\ up_resamples = 0
  /\ up_loads = {}
  /\ up_passes = <<>>
  /\ up_state = "idle"

RngIdle ==
  /\ np_random = [seeded |-> FALSE, drawn |-> 0]
  /\ t_pc = <<>>
  /\ t_cls = <<>>
  /\ t_out = <<>>

CacheIdle ==
  /\ g_upscaler = 0
  /\ g_created = 0
  /\ g_caches = <<>>
  /\ g_loads = <<>>
  /\ u_pc = <<>>
  /\ u_inst = <<>>
  /\ u_scale = <<>>

RenderIdle == RenderInit

ImageIdle ==
  /\ im_pc = "idle"
  /\ im_preset = NoPreset
  /\ im_scales = {}
  /\ im_source = <<0, 0>>
  /\ im_target = <<0, 0>>
  /\ im_image = <<0, 0>>
  /\ im_output = <<0, 0>>
  /\ im_preview = <<0, 0>>
  /\ im_cls = Null
  /\ im_algorithm_config = <<>>
  /\ im_error = NoError
  /\ im_resolved = <<>>

MonitorIdle == MonitorInit

BlurIdle == BlurInit

ApiIdle == ApiInit

PoolIdle == PoolInit

SvcIdle == MonitorIdle /\ BlurIdle /\ ApiIdle /\ PoolIdle

\* the job orchestrator: process_render, run after run
Init == OrchInit /\ CfgIdle /\ UpIdle /\ RngIdle /\ CacheIdle /\ RenderIdle /\ ImageIdle /\ SvcIdle

Next ==
  \/ \E r \in RenderIds : Start(r) /\ UNCHANGED <<cfgVars, upVars, rngVars, cacheVars, renderVars, imageVars, svcVars>>
  \/ MarkStarted /\ UNCHANGED <<cfgVars, upVars, rngVars, cacheVars, renderVars, imageVars, svcVars>>
  \/ FetchDetails /\ UNCHANGED <<cfgVars, upVars, rngVars, cacheVars, renderVars, imageVars, svcVars>>
  \/ ResolvePipeline /\ UNCHANGED <<cfgVars, upVars, rngVars, cacheVars, renderVars, imageVars, svcVars>>
  \/ DownloadAsset /\ UNCHANGED <<cfgVars, upVars, rngVars, cacheVars, renderVars, imageVars, svcVars>>
  \/ ProcessImage /\ UNCHANGED <<cfgVars, upVars, rngVars, cacheVars, renderVars, imageVars, svcVars>>
  \/ SaveTiff /\ UNCHANGED <<cfgVars, upVars, rngVars, cacheVars, renderVars, imageVars, svcVars>>
  \/ SavePreview /\ UNCHANGED <<cfgVars, upVars, rngVars, cacheVars, renderVars, imageVars, svcVars>>
  \/ UploadOutput /\ UNCHANGED <<cfgVars, upVars, rngVars, cacheVars, renderVars, imageVars, svcVars>>
  \/ UploadPreview /\ UNCHANGED <<cfgVars, upVars, rngVars, cacheVars, renderVars, imageVars, svcVars>>
  \/ WriteCompleted /\ UNCHANGED <<cfgVars, upVars, rngVars, cacheVars, renderVars, imageVars, svcVars>>
  \/ CleanupOutputs /\ UNCHANGED <<cfgVars, upVars, rngVars, cacheVars, renderVars, imageVars, svcVars>>
  \/ CleanupInput /\ UNCHANGED <<cfgVars, upVars, rngVars, cacheVars, renderVars, imageVars, svcVars>>
  \/ HandleFailure /\ UNCHANGED <<cfgVars, upVars, rngVars, cacheVars, renderVars, imageVars, svcVars>>

Spec == Init /\ [][Next]_vars

\* pipeline objects: construction, render, disposal
ConfigInit == CfgInit /\ OrchIdle /\ UpIdle /\ RngIdle /\ CacheIdle /\ RenderIdle /\ ImageIdle /\ SvcIdle

ConfigNext ==
  \/ /\ p_state = "none"
     /\ \E cls \in Pipelines : \E cfg \in ConfigsOf(cls) : Construct(cls, cfg)
     /\ UNCHANGED <<orchVars, upVars, rngVars, cacheVars, renderVars, imageVars, svcVars>>
  \/ Render /\ UNCHANGED <<orchVars, upVars, rngVars, cacheVars, renderVars, imageVars, svcVars>>
  \/ Discard /\ UNCHANGED <<orchVars, upVars, rngVars, cacheVars, renderVars, imageVars, svcVars>>
  \/ /\ p_state \in {"constructed", "rendered", "render_error"}
     /\ \E key \in DOMAIN p_config : \E value \in ConfigValues :
          MutateCallerDict(key, value)
     /\ UNCHANGED <<orchVars, upVars, rngVars, cacheVars, renderVars, imageVars, svcVars>>

SpecConfig == ConfigInit /\ [][ConfigNext]_vars

\* one Upscaler object, call after call
UpscaleInit == UpInit /\ OrchIdle /\ CfgIdle /\ RngIdle /\ CacheIdle /\ RenderIdle /\ ImageIdle /\ SvcIdle

UpscaleNext ==
  \/ \E w, h, tw, th \in 1..MaxDim :
    Upscale(Img(0, w, h), <<tw, th>>) /\ UNCHANGED <<orchVars, cfgVars, rngVars, cacheVars, renderVars, imageVars, svcVars>>
  \/ UpscaleDone /\ UNCHANGED <<orchVars, cfgVars, rngVars, cacheVars, renderVars, imageVars, svcVars>>

SpecUpscale == UpscaleInit /\ [][UpscaleNext]_vars

\* texture stages of renders running as threads of one process
RngSpecInit == RngInit /\ OrchIdle /\ CfgIdle /\ UpIdle /\ CacheIdle /\ RenderIdle /\ ImageIdle /\ SvcIdle

RngNext ==
  \/ \E t \in Threads : \E cls \in TexturedPipelines :
       BeginRender(t, cls) /\ UNCHANGED <<orchVars, cfgVars, upVars, cacheVars, renderVars, imageVars, svcVars>>
  \/ \E t \in Threads :
       SeedGlobal(t) /\ UNCHANGED <<orchVars, cfgVars, upVars, cacheVars, renderVars, imageVars, svcVars>>
  \/ \E t \in Threads :
       DrawGlobal(t) /\ UNCHANGED <<orchVars, cfgVars, upVars, cacheVars, renderVars, imageVars, svcVars>>

SpecRng == RngSpecInit /\ [][RngNext]_vars

\* upscale_image called by threads of one process
CacheSpecInit == CacheInit /\ OrchIdle /\ CfgIdle /\ UpIdle /\ RngIdle /\ RenderIdle /\ ImageIdle /\ SvcIdle

CacheNext ==
  \/ \E t \in Threads :
       CheckSingleton(t) /\ UNCHANGED <<orchVars, cfgVars, upVars, rngVars, renderVars, imageVars, svcVars>>
  \/ \E t \in Threads :
       CreateSingleton(t) /\ UNCHANGED <<orchVars, cfgVars, upVars, rngVars, renderVars, imageVars, svcVars>>
  \/ \E t \in Threads : \E scale \in ModelScales :
       CheckCache(t, scale) /\ UNCHANGED <<orchVars, cfgVars, upVars, rngVars, renderVars, imageVars, svcVars>>
  \/ \E t \in Threads :
       LoadModel(t) /\ UNCHANGED <<orchVars, cfgVars, upVars, rngVars, renderVars, imageVars, svcVars>>

SpecCache == CacheSpecInit /\ [][CacheNext]_vars

\* render called again and again on copies of one input, in one process
RenderSpecInit ==
  /\ RenderInit /\ OrchIdle /\ CfgIdle /\ UpIdle /\ RngIdle /\ CacheIdle /\ ImageIdle
  /\ SvcIdle

RenderNext ==
  \/ /\ rn_cls = Null
     /\ \E cls \in Pipelines : \E cfg \in RenderCfgsOf(cls) :
          \E m \in Modes : \E w, h \in 1..MaxSide :
            TakeInput(cls, cfg, Raster(m, w, h))
     /\ UNCHANGED <<orchVars, cfgVars, upVars, t_pc, t_cls, t_out, cacheVars, imageVars, svcVars>>
  \/ \E inst \in 1..MaxCalls :
       /\ inst <= Len(rn_calls) + 1
       /\ CallRender(inst)
       /\ UNCHANGED <<orchVars, cfgVars, upVars, t_pc, t_cls, t_out, cacheVars, imageVars, svcVars>>
  \/ DropInput
       /\ UNCHANGED <<orchVars, cfgVars, upVars, t_pc, t_cls, t_out, cacheVars, imageVars, svcVars>>

SpecRender == RenderSpecInit /\ [][RenderNext]_vars

\* the image section of process_render, from the target size to the preview
ImageSpecInit ==
  /\ ImageInit /\ OrchIdle /\ CfgIdle /\ UpIdle /\ RngIdle /\ CacheIdle /\ RenderIdle
  /\ SvcIdle

ImageNext ==
  \/ ComputeTarget
       /\ UNCHANGED <<orchVars, cfgVars, upVars, rngVars, cacheVars, renderVars, svcVars>>
  \/ UpscaleSource
       /\ UNCHANGED <<orchVars, cfgVars, upVars, rngVars, cacheVars, renderVars, svcVars>>
  \/ RenderSource
       /\ UNCHANGED <<orchVars, cfgVars, upVars, rngVars, cacheVars, renderVars, svcVars>>
  \/ ResizeOutput
       /\ UNCHANGED <<orchVars, cfgVars, upVars, rngVars, cacheVars, renderVars, svcVars>>
  \/ EncodeTiff
       /\ UNCHANGED <<orchVars, cfgVars, upVars, rngVars, cacheVars, renderVars, svcVars>>
  \/ EncodePreview
       /\ UNCHANGED <<orchVars, cfgVars, upVars, rngVars, cacheVars, renderVars, svcVars>>

SpecImage == ImageSpecInit /\ [][ImageNext]_vars

\* the monitors of one process: calls of their holder, steps of their threads
MonitorSpecInit ==
  /\ MonitorInit /\ OrchIdle /\ CfgIdle /\ UpIdle /\ RngIdle /\ CacheIdle /\ RenderIdle
  /\ ImageIdle /\ BlurIdle /\ ApiIdle /\ PoolIdle

RenderSide == <<orchVars, cfgVars, upVars, rngVars, cacheVars, renderVars, imageVars,
                blurVars, apiVars, poolVars>>

MonitorNext ==
  \/ StartMonitoring /\ UNCHANGED RenderSide
  \/ StopMonitoring /\ UNCHANGED RenderSide
  \/ /\ m_calls < MaxMonitorCalls
     /\ \E kind \in MonitorKinds : \E n \in 1..MaxMonitors : StartMonitor(kind, n)
     /\ UNCHANGED RenderSide
  \/ /\ m_calls < MaxMonitorCalls
     /\ \E kind \in MonitorKinds : \E n \in 1..MaxMonitors : StopMonitor(kind, n)
     /\ UNCHANGED RenderSide
  \/ \E kind \in MonitorKinds : \E n \in 1..MaxMonitors : \E i \in 1..MaxLoopThreads :
       LoopCheck(kind, n, i) /\ UNCHANGED RenderSide
  \/ \E kind \in MonitorKinds : \E n \in 1..MaxMonitors : \E i \in 1..MaxLoopThreads :
       \E outcome \in UpdateOutcomes(kind) : \E measured \in Measurements :
         LoopUpdate(kind, n, i, outcome, measured) /\ UNCHANGED RenderSide

SpecMonitor == MonitorSpecInit /\ [][MonitorNext]_vars

\* the directional blur of Between The Lines, image after image
BlurSpecInit ==
  /\ BlurInit /\ OrchIdle /\ CfgIdle /\ UpIdle /\ RngIdle /\ CacheIdle /\ RenderIdle
  /\ ImageIdle /\ MonitorIdle /\ ApiIdle /\ PoolIdle

BlurOthers == <<orchVars, cfgVars, upVars, rngVars, cacheVars, renderVars, imageVars,
                monVars, apiVars, poolVars>>

BlurNext ==
  \/ /\ bl_state = "idle"
     /\ \E n \in 1..MaxBlurPixels :
          \E pixels \in [1..n -> {Pixel(t, m) : t \in Thetas, m \in Magnitudes}] :
            SobelEdges(pixels)
     /\ UNCHANGED BlurOthers
  \/ DirectionalMotionBlur /\ UNCHANGED BlurOthers
  \/ BlurReturn /\ UNCHANGED BlurOthers

SpecBlur == BlurSpecInit /\ [][BlurNext]_vars

\* create_render, request after request, and the worker that takes the jobs
ApiSpecInit ==
  /\ ApiInit /\ OrchIdle /\ CfgIdle /\ UpIdle /\ RngIdle /\ CacheIdle /\ RenderIdle
  /\ ImageIdle /\ MonitorIdle /\ BlurIdle /\ PoolIdle

ApiOthers == <<orchVars, cfgVars, upVars, rngVars, cacheVars, renderVars, imageVars,
               monVars, blurVars, poolVars>>

ApiNext ==
  \/ ValidateRequest /\ UNCHANGED ApiOthers
  \/ UploadFile /\ UNCHANGED ApiOthers
  \/ InsertRecords /\ UNCHANGED ApiOthers
  \/ EnqueueJob /\ UNCHANGED ApiOthers
  \/ Respond /\ UNCHANGED ApiOthers
  \/ WorkerTakesJob /\ UNCHANGED ApiOthers

SpecApi == ApiSpecInit /\ [][ApiNext]_vars

\* threads that use get_connection side by side
PoolSpecInit ==
  /\ PoolInit /\ OrchIdle /\ CfgIdle /\ UpIdle /\ RngIdle /\ CacheIdle /\ RenderIdle
  /\ ImageIdle /\ MonitorIdle /\ BlurIdle /\ ApiIdle

PoolOthers == <<orchVars, cfgVars, upVars, rngVars, cacheVars, renderVars, imageVars,
                monVars, blurVars, apiVars>>

PoolNext ==
  \/ \E t \in Threads : GetConn(t) /\ UNCHANGED PoolOthers
  \/ \E t \in Threads, outcome \in BodyOutcomes :
       BodyEnds(t, outcome) /\ UNCHANGED PoolOthers
  \/ \E t \in Threads : Commit(t) /\ UNCHANGED PoolOthers
  \/ \E t \in Threads : Rollback(t) /\ UNCHANGED PoolOthers
  \/ \E t \in Threads : PutConn(t) /\ UNCHANGED PoolOthers

SpecPool == PoolSpecInit /\ [][PoolNext]_vars

(* ===================== claims about process_render ==================== *)
\* the current invocation has ended with an exception raised after its
\* 'started' UPDATE had hit the job's row
FailedAfterStarted == pc = "done" /\ started_ok /\ exc # Null

C2_StatusOnlyMovesForward ==
  [][\A r \in DOMAIN renders :
       renders'[r].status # renders[r].status =>
         <<renders[r].status, renders'[r].status>> \in
           {<<"queued", "started">>, <<"started", "completed">>,
            <<"started", "failed">>}]_vars

\* C3 (as stated): when process_render has returned or raised, no temporary
\* file it created (input, TIFF output, JPEG preview) still exists.
C3_NoTempFileLeft ==
  pc = "done" => \A f \in tmpfiles : f[2] # runs

\* C4: in every step, a record that has status completed after the step
\* references exactly renders/{id}/output.tiff and renders/{id}/preview.jpg,
\* and both objects were in the bucket already before the step.
C4_CompletedAfterUploads ==
  [][\A r \in DOMAIN renders :
       renders'[r].status = "completed" =>
         /\ renders'[r].output_minio_key = <<"renders", r, "output.tiff">>
         /\ renders'[r].preview_minio_key = <<"renders", r, "preview.jpg">>
         /\ <<"renders", r, "output.tiff">> \in objects
         /\ <<"renders", r, "preview.jpg">> \in objects]_vars

\* C4 witness: a run returned and left its record completed.
C4_Witness ==
  /\ pc = "done"
  /\ result = "returned"
  /\ cur \in DOMAIN renders
  /\ renders[cur].status = "completed"

(* ================= claims about pipeline configuration ================ *)
\* C5 (as stated): for every pipeline and every configuration construction
\* accepts, render (on a well-formed image) never fails because of a
\* configuration value.
C5_RenderNeverFailsOnConfig == p_state # "render_error"

\* the keys every pipeline documents: those of its default configuration
DocumentedKeys(cls) == DOMAIN GetDefaultConfig(cls)

\* C6 (as stated): constructing any pipeline, the screen-print variants
\* included, with a configuration key outside its allow-list raises a
\* validation error that lists the invalid key.
C6_UnknownKeyRejected ==
  (p_state # "none" /\ DOMAIN p_config \ DocumentedKeys(p_cls) # {}) =>
     /\ p_state = "rejected"
     /\ (DOMAIN p_config \ DocumentedKeys(p_cls)) \subseteq p_error.keys

(* ====================== claims about the Upscaler ===================== *)
\* C7 (as stated): for any target size and any source size the image
\* returned by Upscaler.upscale has exactly the target dimensions.
C7_AlwaysExactTarget ==
  up_state = "returned" => <<up_result.w, up_result.h>> = up_target

\* C7 (amended): when the target is wider or taller than the source, the
\* returned image has exactly the target dimensions (classical and AI path);
\* otherwise the returned image has the source's dimensions.
C7_ExactTargetWhenUpscaling ==
  up_state = "returned" =>
    IF up_target[1] > up_image.w \/ up_target[2] > up_image.h
      THEN <<up_result.w, up_result.h>> = up_target
      ELSE <<up_result.w, up_result.h>> = <<up_image.w, up_image.h>>

\* C7 witness: an AI upscale whose passes overshot the target was resampled
\* to the exact target.
C7_Witness ==
  /\ up_state = "returned"
  /\ up_passes # <<>>
  /\ up_resamples = 1
  /\ <<up_result.w, up_result.h>> = up_target
  /\ up_image.w * Product(up_passes) # up_target[1]

\* C8: when the target width and height are both smaller than or equal to
\* the source's, upscale returns the very same image object, unchanged, with
\* no resample and no model load.
C8_NoOpReturnsSameObject ==
  (up_state = "returned" /\ up_target[1] <= up_image.w /\ up_target[2] <= up_image.h) =>
     /\ up_result = up_image
     /\ up_resamples = 0
     /\ up_loads = {}
     /\ up_passes = <<>>

\* C8 witness: a call whose target equals the source size, on an Upscaler
\* that has models available, returned the source object.
C8_Witness ==
  /\ up_state = "returned"
  /\ <<up_image.w, up_image.h>> = up_target
  /\ available_scales # {}
  /\ up_result.obj = up_image.obj

(* ==================== claims about concurrent renders ================= *)
\* what the texture stage of a render draws when it runs alone: the first
\* blocks of the stream seeded with 42
AloneOutput(cls) == [i \in 1..NumDraws(cls) |-> [seeded |-> TRUE, drawn |-> i - 1]]

\* C9 (as stated): under every interleaving each concurrently running
\* render produces the output it produces when run alone (render reads and
\* writes no shared mutable global state).
C9_RenderIndependentOfOthers ==
  \A t \in DOMAIN t_pc : t_pc[t] = "done" => t_out[t] = AloneOutput(t_cls[t])

\* C10 (as stated): each (model-family, scale) model is loaded at most once
\* per process and the global Upscaler is created at most once, even when
\* several threads call upscale_image concurrently.
C10_LazyInitOnce ==
  /\ g_created <= 1
  /\ \A sc \in DOMAIN g_loads : g_loads[sc] <= 1

(* ========================= claims about render ======================= *)
\* C11: for every pipeline, all render calls made on identical copies of one
\* input with one configuration return identical outputs (same pixels, same
\* mode, same size), whether a call uses an instance used before or a
\* freshly constructed one.
C11_RenderDeterministic ==
  \A i, j \in DOMAIN rn_calls : rn_calls[i].out = rn_calls[j].out

\* C11 witness: a screen-print pipeline with all three textures switched on
\* rendered the input twice on one instance and once on a fresh instance.
C11_Witness ==
  /\ Len(rn_calls) = 3
  /\ rn_calls[1].inst = 1
  /\ rn_calls[2].inst = 1
  /\ rn_calls[3].inst = 2
  /\ rn_calls[3].out.mode # "error"
  /\ Len(rn_calls[3].out.noise) = 3

AllowList(cls) ==
  CASE cls = "PopPosterPipeline" ->
         {"k", "seed", "canny_low", "canny_high", "sharpen_radius",
          "sharpen_percent", "sharpen_threshold"}
    [] cls = "PencilSketchPipeline" -> {"sigma", "contrast_factor", "output_mode"}
    [] cls = "BetweenLinesPipeline" -> {"blur_length", "num_levels", "edge_threshold"}

\* every range-checked parameter that is present is in bounds
InBounds(cls, cfg) ==
  LET int_in(k, lo, hi) ==
        k \in DOMAIN cfg => cfg[k].t = "int" /\ lo <= cfg[k].n /\ cfg[k].n <= hi
      int_from(k, lo) == k \in DOMAIN cfg => cfg[k].t = "int" /\ lo <= cfg[k].n
      positive(k) == k \in DOMAIN cfg => cfg[k].t \in {"int", "float"} /\ cfg[k].n > 0
  IN CASE cls = "PopPosterPipeline" -> int_in("k", 2, 256)
       [] cls = "PencilSketchPipeline" -> positive("sigma") /\ positive("contrast_factor")
       [] cls = "BetweenLinesPipeline" ->
            int_in("num_levels", 2, 256) /\ int_from("blur_length", 1)
       [] OTHER -> TRUE

\* C13 (as stated): construction accepts a configuration exactly when each
\* range-checked parameter that is present is in bounds (Pop Poster k an
\* integer in 2..256; Pencil Sketch sigma and contrast_factor numbers > 0;
\* Between The Lines num_levels an integer in 2..256, blur_length an
\* integer >= 1).
C13_AcceptedIffInBounds ==
  [][(p_state = "none" /\ p_state' # "none") =>
       (p_state' = "constructed" <=> InBounds(p_cls', p_config'))]_vars

\* C13 (amended): Pop Poster, Pencil Sketch and Between The Lines accept a
\* configuration exactly when all its keys are in the class's allow-list and
\* each range-checked parameter that is present is in bounds; the
\* screen-print classes, which check nothing, accept every configuration.
C13_AcceptedIffAllowedAndInBounds ==
  [][(p_state = "none" /\ p_state' # "none") =>
       (p_state' = "constructed" <=>
          /\ p_cls' \notin ScreenprintFamily => DOMAIN p_config' \subseteq AllowList(p_cls')
          /\ InBounds(p_cls', p_config'))]_vars

\* C13 witness: Pop Poster was constructed with k = 256.
C13_Witness ==
  /\ p_state = "constructed"
  /\ p_cls = "PopPosterPipeline"
  /\ "k" \in DOMAIN p_config
  /\ p_config["k"] = IntV(256)

\* C14 (as stated): after construction no operation (render,
\* get_default_config, the caller mutating the dict it passed to the
\* constructor) changes the configuration the instance renders with.
C14_ConfigImmutable ==
  [][(p_state \in {"constructed", "rendered", "render_error"}
      /\ p_state' \in {"constructed", "rendered", "render_error"})
       => p_config' = p_config]_vars

\* C15: in every render call the configuration render works with has the
\* keys of get_default_config() and of the overrides; an overridden key
\* carries the override's value (a nested sub-map replaces the default
\* sub-map wholesale), any other key carries the default.
C15_DefaultsOverlaid ==
  [][(p_state \in {"constructed", "rendered"}
      /\ p_state' \in {"rendered", "render_error"} /\ p_config' = p_config) =>
       /\ DOMAIN p_resolved' = DOMAIN GetDefaultConfig(p_cls) \cup DOMAIN p_config
       /\ \A k \in DOMAIN p_resolved' :
            p_resolved'[k] = IF k \in DOMAIN p_config THEN p_config[k]
                             ELSE GetDefaultConfig(p_cls)[k]]_vars

\* C15 witness: render ran with a nested sub-map override that holds fewer
\* keys than the default sub-map, and with a key that was not overridden.
C15_Witness ==
  /\ p_state \in {"rendered", "render_error"}
  /\ \E k \in DOMAIN p_config \cap DOMAIN GetDefaultConfig(p_cls) :
       /\ p_config[k].t = "map"
       /\ GetDefaultConfig(p_cls)[k].t = "map"
       /\ p_config[k].ks # GetDefaultConfig(p_cls)[k].ks
       /\ k \in DOMAIN p_resolved
       /\ p_resolved[k] = p_config[k]
  /\ \E k \in DOMAIN p_resolved : k \notin DOMAIN p_config

(* ============= claims about the image section of a job =============== *)
\* C16: the full-resolution output of a job has width = trunc(width_inches
\* x dpi) and height = trunc(height_inches x dpi) exactly, whatever size the
\* upscaler and the pipeline returned (inches are held in hundredths).
C16_OutputIsTruncatedTarget ==
  im_pc \in {"preview", "encoded"} =>
    /\ im_output[1] * 100 <= im_preset.width_inches * im_preset.dpi
    /\ im_preset.width_inches * im_preset.dpi < (im_output[1] + 1) * 100
    /\ im_output[2] * 100 <= im_preset.height_inches * im_preset.dpi
    /\ im_preset.height_inches * im_preset.dpi < (im_output[2] + 1) * 100

\* C16 witness: both artifacts were encoded for a preset whose inches x dpi
\* has a fraction, from a source the upscaler returned at a size other than
\* the target.
C16_Witness ==
  /\ im_pc = "encoded"
  /\ (im_preset.width_inches * im_preset.dpi) % 100 # 0
  /\ upscale_image(im_source, im_target, im_scales) # im_target
  /\ im_output = im_target

\* C17 (as stated): the preview of every job has a long edge of at most
\* 1200 px: both its width and its height are <= 1200, portrait outputs
\* included.
C17_PreviewLongEdgeBounded ==
  im_pc = "encoded" => im_preview[1] <= 1200 /\ im_preview[2] <= 1200

(* ================= claims about the Upscaler (continued) ============= *)
\* C18: when no model is installed, or the required scale factor is below
\* 1.5, an upscale with factor > 1.0 is one classical resample of the source
\* directly to the target size; no model is loaded and no AI pass runs.
C18_ClassicalFallback ==
  (/\ up_state = "returned"
   /\ (up_target[1] > up_image.w \/ up_target[2] > up_image.h)
   /\ \/ available_scales = {}
      \/ (2 * up_target[1] < 3 * up_image.w /\ 2 * up_target[2] < 3 * up_image.h)) =>
     /\ up_result = [obj |-> up_image.obj + 1, w |-> up_target[1], h |-> up_target[2]]
     /\ up_resamples = 1
     /\ up_loads = {}
     /\ up_passes = <<>>

\* C18 witness: an Upscaler without any model returned a threefold (or
\* larger) enlargement made by one resample.
C18_Witness ==
  /\ up_state = "returned"
  /\ available_scales = {}
  /\ up_target[1] >= 3 * up_image.w
  /\ up_resamples = 1
  /\ <<up_result.w, up_result.h>> = up_target

(* =============== claims about process_render (continued) ============= *)
\* C19: a run whose job record is missing fails with 'Render not found', a
\* run whose style slug is not registered fails with 'Unknown style' (unless
\* the database itself failed first), and in both cases the run attempts no
\* asset download, creates no temporary file and attempts no upload.
C19_FailsBeforeAnyIO ==
  /\ exc \in {"Render not found", "Unknown style"} =>
       /\ effects = {}
       /\ \A f \in tmpfiles : f[2] # runs
  /\ (pc = "done" /\ cur \notin DOMAIN renders) =>
       /\ result = "raised"
       /\ exc \in {"Render not found", "database error"}
       /\ effects = {}
  /\ (pc = "done" /\ cur \in DOMAIN renders
         /\ renders[cur].style_slug \notin DOMAIN PIPELINE_MAP) =>
       /\ result = "raised"
       /\ exc \in {"Unknown style", "database error"}
       /\ effects = {}

\* C19 witness: a run on a record whose style slug is not registered raised
\* 'Unknown style' and its record was written as failed.
C19_Witness ==
  /\ pc = "done"
  /\ result = "raised"
  /\ exc = "Unknown style"
  /\ cur \in DOMAIN renders
  /\ renders[cur].status = "failed"
  /\ renders[cur].error_message = "Unknown style"

\* C20 (as stated): no exception raised inside process_render is silently
\* swallowed: each one, those of temporary-file cleanup and of the write of
\* the failed status included, is logged or propagated to the caller.
C20_NoErrorSwallowed ==
  /\ swallowed = {}
  /\ (pc = "done" /\ exc # Null) => result = "raised" /\ "Render failed" \in log
  /\ fail_write = "error" => "Failed to update render status" \in log

(* ========================= claims about monitoring ==================== *)
\* C21: after a failed update of the queue-depth or storage-size monitor the
\* gauge of that monitor reads -1, after a successful one it reads the
\* measured value (whatever it read before, -1 included); and a monitor
\* thread leaves its loop only when the stop event of its object is set, so
\* a failed update never ends it.
C21_FailureSetsSentinelAndLoopGoesOn ==
  /\ [](m_update.kind \in {"queue", "storage"} =>
         IF m_update.outcome = "ok"
         THEN gauge[m_update.kind] \in {Sample(v) : v \in Measurements}
         ELSE gauge[m_update.kind] = Sample(-1))
  /\ [][\A k \in MonitorKinds : \A n \in DOMAIN monitors[k] :
          \A i \in DOMAIN monitors[k][n].threads :
            (monitors[k][n].threads[i] = "updating"
               => monitors'[k][n].threads[i] \in {"updating", "waiting"})
            /\ (monitors[k][n].threads[i] # "exited"
                 /\ monitors'[k][n].threads[i] = "exited"
               => monitors'[k][n].stop_event)]_vars

\* C21 witness: the storage gauge reads a measurement again after the queue
\* monitor's update raised, and the queue monitor's thread is back in its wait.
C21_Witness ==
  /\ m_update = [kind |-> "queue", outcome |-> "raised"]
  /\ gauge["queue"] = Sample(-1)
  /\ gauge["storage"] \in {Sample(v) : v \in Measurements}
  /\ m_global["queue"] # 0
  /\ monitors["queue"][m_global["queue"]].threads = <<"waiting">>

\* live monitoring-loop threads of one kind, over all its monitor objects
AllLive(k) ==
  {<<n, i>> \in (DOMAIN monitors[k]) \X (1..MaxLoopThreads) :
     i \in LiveThreads(monitors[k][n])}

\* C22: when only start_monitoring has been called, however many times, each
\* of the three monitors has exactly one live thread; a start_monitoring call
\* that follows a start_monitoring call, and a stop_monitoring call that
\* follows a stop_monitoring call, leave the monitors and the globals as
\* they were.
C22_StartStopIdempotent ==
  /\ [](m_last = "start_monitoring" /\ m_run = m_calls =>
         \A k \in MonitorKinds :
           m_global[k] # 0 /\ Cardinality(AllLive(k)) = 1)
  /\ [][(m_calls' = m_calls + 1 /\ m_run' >= 2
           /\ m_last' \in {"start_monitoring", "stop_monitoring"})
           => monitors' = monitors /\ m_global' = m_global]_vars

\* C22 witness: start_monitoring has been called twice in a row and the
\* threads of the first call are at work.
C22_Witness ==
  /\ m_last = "start_monitoring" /\ m_run = 2 /\ m_calls = 2
  /\ \A k \in MonitorKinds : monitors[k][m_global[k]].threads = <<"updating">>

\* C29: a monitor object never has more than one thread inside its
\* monitoring loop, whatever start() and stop() calls were made on it.
C29_AtMostOneLoopThread ==
  \A k \in MonitorKinds : \A n \in DOMAIN monitors[k] :
    Cardinality(LiveThreads(monitors[k][n])) <= 1

(* ===================== claims about the AI upscaling path ============= *)
\* the call upscale has just returned from went through _ai_upscale
TookAiPath ==
  /\ up_state = "returned"
  /\ ~NoUpscaleNeeded(calculate_scale_factor(<<up_image.w, up_image.h>>, up_target))
  /\ ~UseLanczos(calculate_scale_factor(<<up_image.w, up_image.h>>, up_target),
                 available_scales)

\* pass i of the passes applies a scale s with s <= 1.2 * remaining, where
\* remaining = target_scale / (product of the passes before i)
WithinOvershoot(target_scale, passes, i) ==
  5 * passes[i] * Product(SubSeq(passes, 1, i - 1)) * target_scale[2]
    <= 6 * target_scale[1]

\* C23: no pass of the AI path applies a scale above 1.2 times the scale
\* that remained to be applied when the pass began.
C23_NoPassOvershoots ==
  TookAiPath =>
    \A i \in DOMAIN up_passes :
      WithinOvershoot(calculate_scale_factor(<<up_image.w, up_image.h>>, up_target),
                      up_passes, i)

\* the loop of _ai_upscale, run for the given target scale with the given
\* models, ends; every pass but the last began below the target, and the
\* scales applied multiply to the target scale or more
LoopReachesTarget(target_scale, avail) ==
  LET passes == AiPasses(target_scale, 1, avail)
  IN /\ Len(passes) >= 1
     /\ \A i \in DOMAIN passes :
          /\ passes[i] \in avail
          /\ Lt(<<Product(SubSeq(passes, 1, i - 1)), 1>>, target_scale)
     /\ Leq(target_scale, <<Product(passes), 1>>)

\* C24: for the sizes of every upscale call that asks for a scale above 1
\* on an Upscaler with at least one model, the pass loop ends with the
\* cumulative scale at or above the target scale; and the passes the AI path
\* has applied are those of that loop.
C24_LoopTerminatesAtTarget ==
  LET scale == calculate_scale_factor(<<up_image.w, up_image.h>>, up_target)
  IN /\ (up_state = "returned" /\ available_scales # {} /\ Lt(One, scale)
          => LoopReachesTarget(scale, available_scales))
     /\ (TookAiPath =>
          /\ up_passes = AiPasses(scale, 1, available_scales)
          /\ Leq(scale, <<Product(up_passes), 1>>))

\* C24 witness: an AI upscale that needed more than one pass.
C24_Witness ==
  /\ TookAiPath
  /\ Len(up_passes) >= 2
  /\ up_result.w = up_target[1] /\ up_result.h = up_target[2]

(* ================= claims about the directional blur ================== *)
\* C25: every pixel whose gradient magnitude is at least edge_threshold is
\* held by exactly one of the 8 direction bins, so its output value is the
\* blur of one direction.
C25_ExactlyOneBin ==
  bl_state = "blurred" =>
    \A p \in DOMAIN bl_pixels :
      bl_pixels[p].magnitude >= edge_threshold => Cardinality(bl_bins[p]) = 1

(* ============ claims about the pipeline process_render builds ========= *)
\* C26: whatever algorithm_config the style's row holds, the pipeline
\* process_render constructs receives no overrides: its constructor raises no
\* configuration error and render works with get_default_config() of the
\* class.
C26_RendersWithDefaults ==
  im_pc \in {"resize", "tiff", "preview", "encoded", "failed"} =>
    /\ im_error = NoError
    /\ im_resolved = GetDefaultConfig(im_cls)

\* C26 witness: a Pop Poster job whose style stores k = 257 has been
\* rendered and encoded.
C26_Witness ==
  /\ im_pc = "encoded"
  /\ im_cls = "PopPosterPipeline"
  /\ im_algorithm_config = [k |-> IntV(257)]
  /\ im_resolved # <<>>

(* ================== claims about the job record ======================= *)
\* C27: a job record in status completed has no error_message.
C27_CompletedHasNoErrorMessage ==
  \A r \in DOMAIN renders :
    renders[r].status = "completed" => renders[r].error_message = Null

(* ===================== claims about create_render ===================== *)
\* C28: every render whose request was answered 201 has a job waiting in the
\* render queue or has been taken by a worker and left status queued.
C28_AnsweredRenderHasJob ==
  \A r \in DOMAIN a_resp :
    a_resp[r] = 201 =>
      \/ \E j \in DOMAIN a_queue : a_queue[j] = r
      \/ a_rows[r] # "queued"

(* ===================== claims about get_connection ==================== *)
\* the threads whose last `with` block has ended, body included
UsedAndLeft == {t \in Threads : pl_pc[t] = "idle" /\ pl_body[t] # "none"}

\* every connection that is checked out is held by a thread inside a `with`,
\* and a thread outside holds none
Restored ==
  /\ \A t \in Threads : pl_pc[t] = "idle" <=> pl_conn[t] = 0
  /\ CheckedOut = {pl_conn[t] : t \in Threads} \ {0}
  /\ \A t, u \in Threads : t # u /\ pl_conn[t] # 0 => pl_conn[t] # pl_conn[u]

\* C30 as stated: the connection is always returned, the transaction is
\* committed exactly when the body finished without an exception and rolled
\* back otherwise, and the checked-out count is restored.
C30_CommitOrRollback ==
  /\ Restored
  /\ \A t \in UsedAndLeft :
       /\ pl_body[t] = "ok" <=> (pl_txn[t] # <<>> /\ pl_txn[t][1] = "commit")
       /\ pl_body[t] # "ok" => pl_txn[t] = <<"rollback">>

\* C30, amended: the connection is always returned and the checked-out count
\* restored; commit is called exactly when the body finished without an
\* exception (and followed by a rollback when the commit raises); the
\* transaction is rolled back when the body raised an Exception; a body left
\* by a BaseException that is no Exception is neither committed nor rolled
\* back by get_connection; an exception leaves the block in every case but
\* that of a body and a commit that both succeeded.
C30_CommitOrRollbackOnException ==
  /\ Restored
  /\ \A t \in UsedAndLeft :
       /\ pl_body[t] = "ok" <=> (pl_txn[t] # <<>> /\ pl_txn[t][1] = "commit")
       /\ pl_body[t] = "ok" => pl_txn[t] \in {<<"commit">>, <<"commit", "rollback">>}
       /\ pl_body[t] = "exception" => pl_txn[t] = <<"rollback">>
       /\ pl_body[t] = "base_exception" => pl_txn[t] = <<>>
       /\ pl_raised[t] <=> ~(pl_body[t] = "ok" /\ pl_txn[t] = <<"commit">>)

\* C30 witness: one thread left its block by a BaseException, another by an
\* Exception, a commit that raised was rolled back, and every connection is
\* back in the pool.
C30_Witness ==
  /\ pl_free = Connections
  /\ \E t, u \in UsedAndLeft :
       /\ pl_body[t] = "base_exception"
       /\ pl_body[u] = "ok" /\ pl_txn[u] = <<"commit", "rollback">>


====
